---------------------------- MODULE Spec2Model ----------------------------
(***************************************************************************)
(* libDaltonLens: colour vision deficiency simulation on an RGBA8 buffer.  *)
(*                                                                         *)
(* The model follows libDaltonLens.c: the sRGB codec, the Brettel 1997 and *)
(* Vienot 1999 parameter tables, the two buffer walks and the dispatcher.  *)
(*                                                                         *)
(* Numbers.  A C float holding a linear intensity is an integer count of   *)
(* 1/LinScale units; a matrix or normal coefficient is its five-decimal    *)
(* literal times CoefScale; a severity is a count of 1/SevScale.  Products *)
(* are formed exactly and rounded once to the 1/LinScale grid.  powf is a  *)
(* table: its values on the 256 bytes (DecodePowTable) and the breakpoints *)
(* of the encoder's gamma branch (EncodeHalfSteps), both taken from the    *)
(* float expressions of the source evaluated in IEEE single precision.     *)
(***************************************************************************)
EXTENDS Integers, Sequences, FiniteSets

(***************************************************************************)
(* Bounds of the model.                                                    *)
(***************************************************************************)
MaxWidth == 2

MaxHeight == 2

MaxPad == 2

MaxSeed == 1

\* The calls a caller makes one after another on one buffer.
MaxCalls == 3

(***************************************************************************)
(* enum DLDeficiency                                                       *)
(***************************************************************************)
DLDeficiency_Protan == 0

DLDeficiency_Deutan == 1

DLDeficiency_Tritan == 2

Deficiencies == {DLDeficiency_Protan, DLDeficiency_Deutan, DLDeficiency_Tritan}

(***************************************************************************)
(* Fixed-point representation of float.                                    *)
(***************************************************************************)
LinScale == 1000000

CoefScale == 100000

SevScale == 1000

Byte == 0..255

\* The high and low part of a linear value: x = Hi(x) * 1000 + Lo(x), with
\* 0 <= Lo(x) < 1000, so that products with coefficients stay in range.
Hi(x) == x \div 1000

Lo(x) == x % 1000

\* m[i]*rgb[1] + m[i+1]*rgb[2] + m[i+2]*rgb[3] for coefficients scaled by
\* CoefScale: the exact sum, rounded to the nearest 1/LinScale.
Row3(m, i, rgb) ==
  LET A == m[i] * Hi(rgb[1]) + m[i+1] * Hi(rgb[2]) + m[i+2] * Hi(rgb[3])
      B == m[i] * Lo(rgb[1]) + m[i+1] * Lo(rgb[2]) + m[i+2] * Lo(rgb[3])
  IN  (A \div 100) + (((A % 100) * 1000 + B + (CoefScale \div 2)) \div CoefScale)

\* s * x for s scaled by SevScale, rounded to the nearest 1/LinScale.
MulSev(s, x) == s * Hi(x) + ((s * Lo(x) + (SevScale \div 2)) \div SevScale)

(***************************************************************************)
(* The sRGB codec.                                                         *)
(***************************************************************************)
\* powf((v/255 + 0.055)/1.055, 2.4) for v = 11..255, in 1/LinScale.  Each
\* entry is rounded to the side of the encoder breakpoint of byte v on which
\* the float value lies, so that the order of floats is kept.
DecodePowTable ==
  <<3346, 3676, 4024, 4392, 4777, 5182, 5606, 6048, 6513, 6996, 7500, 8024, 8569, 9134,
    9722, 10330, 10961, 11613, 12287, 12984, 13702, 14443, 15208, 15996, 16807, 17641,
    18500, 19383, 20288, 21219, 22173, 23153, 24157, 25186, 26241, 27320, 28426, 29556,
    30713, 31896, 33104, 34339, 35601, 36889, 38204, 39546, 40915, 42311, 43735, 45186,
    46665, 48171, 49706, 51270, 52861, 54481, 56129, 57806, 59512, 61247, 63011, 64804,
    66626, 68479, 70361, 72272, 74214, 76186, 78188, 80220, 82283, 84377, 86501, 88656,
    90842, 93059, 95308, 97588, 99899, 102242, 104617, 107024, 109462, 111933, 114436,
    116971, 119538, 122139, 124772, 127438, 130137, 132869, 135634, 138432, 141264,
    144129, 147028, 149960, 152927, 155927, 158961, 162030, 165133, 168269, 171441,
    174647, 177888, 181164, 184474, 187820, 191201, 194617, 198069, 201556, 205078,
    208636, 212230, 215861, 219527, 223228, 226966, 230740, 234551, 238398, 242282,
    246202, 250159, 254153, 258183, 262251, 266356, 270498, 274678, 278895, 283149,
    287441, 291771, 296139, 300544, 304988, 309469, 313989, 318547, 323144, 327779,
    332452, 337164, 341915, 346705, 351533, 356401, 361307, 366253, 371238, 376263,
    381327, 386430, 391573, 396756, 401978, 407241, 412543, 417886, 423268, 428691,
    434154, 439658, 445202, 450786, 456412, 462078, 467784, 473532, 479321, 485150,
    491021, 496933, 502887, 508882, 514918, 520996, 527116, 533277, 539480, 545725,
    552012, 558341, 564712, 571125, 577581, 584079, 590619, 597202, 603828, 610496,
    617207, 623961, 630758, 637597, 644480, 651406, 658375, 665388, 672444, 679542,
    686686, 693872, 701103, 708376, 715694, 723056, 730461, 737911, 745405, 752943,
    760525, 768152, 775823, 783538, 791299, 799103, 806953, 814847, 822786, 830770,
    838800, 846874, 854993, 863158, 871368, 879622, 887924, 896269, 904662, 913098,
    921583, 930110, 938686, 947306, 955974, 964686, 973446, 982250, 991103, 1000000>>

\* The least linear values (in 1/LinScale, rounded up) at which
\* 255*(powf(v, 1/2.4)*1.055 - 0.055) reaches 21/2, 22/2, ..., 509/2.
EncodeHalfSteps ==
  <<3189, 3347, 3510, 3677, 3849, 4025, 4206, 4392, 4582, 4777, 4977, 5182, 5392, 5606,
    5825, 6049, 6278, 6513, 6752, 6996, 7245, 7500, 7759, 8024, 8294, 8569, 8849, 9135,
    9425, 9722, 10023, 10330, 10643, 10961, 11284, 11613, 11947, 12287, 12632, 12984,
    13340, 13703, 14071, 14444, 14824, 15209, 15600, 15997, 16399, 16808, 17222, 17642,
    18069, 18501, 18939, 19383, 19833, 20289, 20751, 21220, 21694, 22174, 22661, 23154,
    23653, 24158, 24670, 25187, 25711, 26242, 26778, 27321, 27871, 28427, 28989, 29557,
    30132, 30714, 31302, 31897, 32498, 33105, 33719, 34340, 34968, 35602, 36243, 36890,
    37544, 38205, 38872, 39547, 40228, 40916, 41610, 42312, 43020, 43736, 44458, 45187,
    45923, 46666, 47415, 48172, 48936, 49707, 50485, 51270, 52062, 52861, 53667, 54481,
    55301, 56129, 56964, 57806, 58655, 59512, 60376, 61247, 62125, 63011, 63903, 64804,
    65711, 66626, 67549, 68479, 69416, 70361, 71313, 72272, 73239, 74214, 75196, 76186,
    77183, 78188, 79200, 80220, 81248, 82283, 83326, 84377, 85435, 86501, 87575, 88656,
    89745, 90842, 91947, 93059, 94180, 95308, 96444, 97588, 98740, 99899, 101067,
    102242, 103426, 104617, 105816, 107024, 108239, 109462, 110694, 111933, 113180,
    114436, 115699, 116971, 118251, 119539, 120835, 122139, 123452, 124772, 126101,
    127438, 128783, 130137, 131499, 132869, 134247, 135634, 137029, 138432, 139844,
    141264, 142692, 144129, 145574, 147028, 148490, 149960, 151439, 152927, 154423,
    155927, 157440, 158961, 160491, 162030, 163577, 165133, 166697, 168270, 169851,
    171442, 173040, 174648, 176264, 177889, 179522, 181165, 182816, 184476, 186144,
    187821, 189507, 191202, 192906, 194618, 196340, 198070, 199809, 201557, 203314,
    205079, 206854, 208637, 210430, 212231, 214042, 215861, 217689, 219527, 221373,
    223228, 225093, 226966, 228849, 230741, 232641, 234551, 236470, 238398, 240335,
    242282, 244237, 246202, 248176, 250159, 252151, 254153, 256163, 258183, 260213,
    262251, 264299, 266356, 268423, 270498, 272583, 274678, 276782, 278895, 281017,
    283149, 285291, 287441, 289602, 291771, 293950, 296139, 298337, 300544, 302761,
    304988, 307224, 309469, 311725, 313989, 316263, 318547, 320841, 323144, 325456,
    327779, 330110, 332452, 334803, 337164, 339535, 341915, 344305, 346705, 349114,
    351533, 353962, 356401, 358849, 361307, 363775, 366253, 368741, 371238, 373746,
    376263, 378790, 381327, 383873, 386430, 388997, 391573, 394159, 396756, 399362,
    401978, 404605, 407241, 409887, 412543, 415209, 417886, 420572, 423268, 425975,
    428691, 431418, 434154, 436901, 439658, 442425, 445202, 447989, 450786, 453594,
    456412, 459239, 462078, 464926, 467784, 470653, 473532, 476421, 479321, 482230,
    485150, 488081, 491021, 493972, 496934, 499905, 502887, 505879, 508882, 511895,
    514918, 517952, 520996, 524051, 527116, 530191, 533277, 536373, 539480, 542597,
    545725, 548863, 552012, 555171, 558341, 561521, 564712, 567913, 571125, 574348,
    577581, 580825, 584079, 587344, 590619, 593906, 597202, 600510, 603828, 607157,
    610496, 613846, 617207, 620579, 623961, 627354, 630758, 634172, 637597, 641033,
    644480, 647938, 651406, 654885, 658375, 661876, 665388, 668910, 672444, 675988,
    679543, 683109, 686686, 690274, 693872, 697482, 701103, 704734, 708376, 712030,
    715694, 719369, 723056, 726753, 730461, 734181, 737911, 741652, 745405, 749168,
    752943, 756728, 760525, 764333, 768152, 771982, 775823, 779675, 783538, 787413,
    791299, 795195, 799103, 803022, 806953, 810894, 814847, 818811, 822786, 826773,
    830770, 834779, 838800, 842831, 846874, 850928, 854993, 859070, 863158, 867257,
    871368, 875490, 879623, 883768, 887924, 892091, 896270, 900460, 904662, 908875,
    913099, 917335, 921582, 925841, 930111, 934393, 938686, 942991, 947307, 951635,
    955974, 960324, 964687, 969061, 973446, 977843, 982251, 986671, 991103, 995546>>

\* fv < 0.04045f, with fv = v / 255.f
BelowDecodeKnee(v) == v * 100000 < 4045 * 255

linearRGB_from_sRGB(v) ==
  IF BelowDecodeKnee(v)
  THEN (v * 10000000 + 16473) \div 32946      \* fv / 12.92f = v / 3294.6
  ELSE DecodePowTable[v - 10]

\* The number of entries of EncodeHalfSteps[lo..hi] that are <= x (the table
\* is increasing).
RECURSIVE CountSteps(_, _, _)
CountSteps(lo, hi, x) ==
  IF lo > hi THEN 0
  ELSE LET mid == (lo + hi) \div 2
       IN  IF EncodeHalfSteps[mid] <= x
           THEN (mid - lo + 1) + CountSteps(mid + 1, hi, x)
           ELSE CountSteps(lo, mid - 1, x)

\* 255.f * (powf(v, 1.f/2.4f) * 1.055f - 0.055f), in halves, rounded down.
GammaHalves(v) == 20 + CountSteps(1, Len(EncodeHalfSteps), v)

\* v * 12.92 * 255.f, in halves, rounded down (v * 3294.6 * 2).
LinearHalves(v) == (v * 65892) \div (10 * LinScale)

\* The offset added before the conversion to unsigned char truncates, in
\* halves: 0.5f in the linear branch, 0.f in the gamma branch.
LinearOffset == 1

GammaOffset == 0

\* Mutant: the knee with its decimal point misplaced (0.031308).
BelowEncodeKnee_Misplaced(v) == v * 10 < 313080

\* v < 0.0031308f
BelowEncodeKnee(v) == v * 10 < 31308

\* Mutant: no clamping, the converted value is reduced modulo 256.
sRGB_from_linearRGB_Unclamped(v) ==
  (IF BelowEncodeKnee(v) THEN (LinearOffset + (v \div 152)) \div 2
   ELSE (GammaOffset + GammaHalves(v)) \div 2) % 256

sRGB_from_linearRGB(v) ==
  IF v <= 0 THEN 0
  ELSE IF v >= LinScale THEN 255
  ELSE IF BelowEncodeKnee(v) THEN (LinearOffset + LinearHalves(v)) \div 2
  ELSE (GammaOffset + GammaHalves(v)) \div 2

(***************************************************************************)
(* Brettel 1997 parameters (struct DLBrettel1997Params), times CoefScale.  *)
(***************************************************************************)
brettel_protan_params ==
  [ rgbCvdFromRgb_1 |-> << 14980, 119548, -34528,
                           10764,  84864,   4372,
                             384,   -540, 100156 >>,
    rgbCvdFromRgb_2 |-> << 14570, 116172, -30742,
                           10816,  85291,   3892,
                             386,   -524, 100139 >>,
    separationPlaneNormalInRgb |-> << 48, 393, -441 >> ]

brettel_deutan_params ==
  [ rgbCvdFromRgb_1 |-> << 36477,  86381, -22858,
                           26294,  64245,   9462,
                           -2006,   2728,  99278 >>,
    rgbCvdFromRgb_2 |-> << 37298,  88166, -25464,
                           25954,  63506,  10540,
                           -1980,   2784,  99196 >>,
    separationPlaneNormalInRgb |-> << -281, -611, 892 >> ]

brettel_tritan_params ==
  [ rgbCvdFromRgb_1 |-> << 101277,  13548, -14826,
                            -1243,  86812,  14431,
                             7589,  80500,  11911 >>,
    rgbCvdFromRgb_2 |-> <<  93678,  18979, -12657,
                             6154,  81526,  12320,
                           -37562, 112767,  24796 >>,
    separationPlaneNormalInRgb |-> << 3901, -2788, -1113 >> ]

(***************************************************************************)
(* Vienot 1999 parameters, times CoefScale.                                *)
(***************************************************************************)
dl_vienot_protan_rgbCvd_from_rgb ==
  << 11238,  88762,      0,
     11238,  88762,      0,
       401,   -401, 100000 >>

dl_vienot_deutan_rgbCvd_from_rgb ==
  << 29275,  70725,      0,
     29275,  70725,      0,
     -2234,   2234, 100000 >>

dl_vienot_tritan_rgbCvd_from_rgb ==
  << 100000,  14461, -14461,
          0,  85924,  14076,
          0,  85924,  14076 >>

\* The null pointer both switches start from.
NULL == "NULL"

\* No case of the switch on the deficiency matches: the pointer it was to set
\* keeps its initial value NULL.
SwitchMatchesNoCase(d) ==
  d \notin {DLDeficiency_Protan, DLDeficiency_Deutan, DLDeficiency_Tritan}

\* switch (deficiency) of dl_simulate_cvd_brettel1997
BrettelParamsOf(d) ==
  CASE d = DLDeficiency_Protan -> brettel_protan_params
    [] d = DLDeficiency_Deutan -> brettel_deutan_params
    [] d = DLDeficiency_Tritan -> brettel_tritan_params
    [] OTHER -> NULL

\* Mutant: the plane-2 matrices of Brettel 1997 in place of the Vienot ones.
VienotMatrixOf_BrettelPlane2(d) == BrettelParamsOf(d).rgbCvdFromRgb_2

\* switch (deficiency) of dl_simulate_cvd_vienot1999
VienotMatrixOf(d) ==
  CASE d = DLDeficiency_Protan -> dl_vienot_protan_rgbCvd_from_rgb
    [] d = DLDeficiency_Deutan -> dl_vienot_deutan_rgbCvd_from_rgb
    [] d = DLDeficiency_Tritan -> dl_vienot_tritan_rgbCvd_from_rgb
    [] OTHER -> NULL

(***************************************************************************)
(* The per-pixel arithmetic.                                               *)
(***************************************************************************)
\* Mutant: the bytes are scaled to [0,1] without the transfer function.
DecodeRgb_NoTransfer(srgb) ==
  << (srgb[1] * LinScale) \div 255, (srgb[2] * LinScale) \div 255,
     (srgb[3] * LinScale) \div 255 >>

\* rgb = linearRGB_from_sRGB(srgb)
DecodeRgb(srgb) ==
  << linearRGB_from_sRGB(srgb[1]),
     linearRGB_from_sRGB(srgb[2]),
     linearRGB_from_sRGB(srgb[3]) >>

\* sRGB_from_linearRGB on each channel
EncodeRgb(lin) ==
  << sRGB_from_linearRGB(lin[1]),
     sRGB_from_linearRGB(lin[2]),
     sRGB_from_linearRGB(lin[3]) >>

\* rgb_cvd = rgbCvdFromRgb * rgb
MatVec(m, rgb) == << Row3(m, 1, rgb), Row3(m, 4, rgb), Row3(m, 7, rgb) >>

\* The dot product of a grey, R = G = B, with a normal whose components sum to
\* 0 is 0 in exact arithmetic.  In the single-precision arithmetic of the code,
\* rgb[0]*n[0] + rgb[1]*n[1] + rgb[2]*n[2] rounded after each operation, it is
\* 0 or a residue of the roundings: for each normal of libDaltonLens.c and of
\* its folded variant, the bytes v for which the dot product of the grey
\* (v, v, v) is negative and those for which it is positive.
GreyDotWithSepPlane ==
  {
    [n |-> << 48, 393, -441 >>,
     negative |-> {
        74, 87, 118, 193, 196, 230, 238 },
     positive |-> {
        3, 5, 6, 10, 13, 15, 19, 34, 36, 38, 39, 41, 42, 49, 53,
        57, 79, 81, 83, 95, 96, 107, 109, 117, 124, 126, 135,
        147, 149, 158, 160, 165, 168, 173, 176, 179, 184, 192,
        198, 200, 201, 202, 206, 209, 213, 218, 219, 224, 225,
        226, 227, 228, 236, 240, 241, 246 }],
    [n |-> << -281, -611, 892 >>,
     negative |-> {
        9, 17, 23, 30, 32, 64, 70, 91, 98, 108, 133, 135, 139,
        155, 156, 169, 170, 171, 173, 188, 195, 197, 211, 219,
        222, 227, 232 },
     positive |-> {
        18, 33, 39, 41, 42, 44, 45, 59, 83, 86, 93, 100, 123,
        125, 131, 147, 151, 152, 161, 162, 168, 174, 178, 182,
        184, 185, 190, 200, 210, 213, 235, 237, 238, 247 }],
    [n |-> << 3901, -2788, -1113 >>,
     negative |-> {
        1, 2, 4, 7, 8, 9, 11, 12, 13, 15, 18, 19, 21, 22, 23,
        25, 26, 29, 30, 33, 34, 35, 36, 38, 39, 40, 41, 43, 44,
        45, 47, 48, 52, 53, 54, 55, 57, 58, 65, 67, 68, 69, 70,
        71, 74, 75, 77, 78, 79, 80, 81, 82, 83, 85, 86, 87, 88,
        89, 90, 92, 93, 94, 97, 99, 100, 103, 105, 106, 107,
        108, 110, 111, 112, 113, 115, 117, 118, 119, 121, 122,
        123, 126, 127, 128, 129, 130, 133, 135, 136, 138, 139,
        141, 142, 144, 146, 147, 148, 149, 151, 152, 153, 154,
        155, 156, 157, 159, 160, 166, 167, 168, 169, 173, 175,
        177, 178, 180, 181, 182, 183, 185, 186, 188, 189, 190,
        191, 192, 193, 194, 195, 196, 197, 198, 200, 201, 202,
        203, 204, 205, 206, 209, 210, 211, 212, 213, 214, 215,
        217, 218, 220, 221, 222, 223, 226, 228, 229, 230, 232,
        233, 234, 235, 240, 241, 242, 244, 245, 246, 247, 248,
        249, 250, 251, 252, 254, 255 },
     positive |-> {
        14, 17, 20, 24, 27, 37, 51, 56, 63, 64, 66, 96, 98, 102,
        109, 116, 125, 132, 134, 143, 145, 165, 172, 179, 199,
        207, 224, 225, 238, 239, 243 }],
    [n |-> << 48, 416, -464 >>,
     negative |-> {
        41, 48, 62, 69, 74, 116, 138, 141, 160, 165, 187, 193,
        243, 254 },
     positive |-> {
        1, 2, 4, 5, 8, 10, 14, 15, 20, 21, 25, 27, 34, 42, 43,
        52, 57, 59, 61, 70, 88, 90, 91, 94, 96, 98, 99, 104,
        106, 108, 111, 124, 126, 158, 164, 170, 173, 182, 185,
        186, 191, 194, 198, 202, 209, 216, 218, 229, 231, 236 }],
    [n |-> << -293, -645, 938 >>,
     negative |-> {
        3, 5, 6, 9, 10, 14, 16, 17, 18, 19, 23, 24, 26, 27, 28,
        29, 30, 34, 37, 39, 40, 43, 44, 45, 50, 51, 54, 56, 58,
        60, 61, 62, 64, 70, 72, 74, 75, 77, 80, 81, 82, 83, 85,
        86, 87, 88, 89, 94, 96, 99, 101, 103, 105, 106, 107,
        108, 113, 115, 116, 119, 121, 122, 123, 125, 126, 127,
        128, 130, 132, 133, 135, 136, 139, 140, 141, 144, 147,
        149, 150, 151, 152, 154, 155, 157, 158, 160, 161, 162,
        163, 164, 168, 169, 170, 171, 172, 180, 181, 183, 184,
        185, 186, 187, 190, 191, 192, 194, 195, 198, 199, 200,
        201, 205, 209, 210, 212, 213, 219, 220, 222, 223, 224,
        225, 226, 227, 228, 231, 232, 233, 234, 235, 236, 237,
        238, 239, 240, 242, 245, 246, 248, 250, 253 },
     positive |-> {
 }],
    [n |-> << 3960, -2831, -1129 >>,
     negative |-> {
        3, 6, 7, 11, 12, 13, 15, 17, 18, 19, 20, 21, 22, 25, 27,
        28, 29, 31, 32, 33, 35, 39, 40, 41, 42, 43, 45, 46, 47,
        48, 49, 50, 52, 53, 55, 56, 58, 59, 60, 62, 63, 64, 65,
        67, 71, 72, 73, 74, 75, 76, 78, 79, 81, 82, 84, 86, 88,
        89, 90, 91, 92, 93, 95, 96, 97, 98, 99, 101, 102, 103,
        104, 105, 106, 107, 108, 110, 111, 112, 115, 117, 119,
        120, 121, 122, 130, 132, 133, 134, 135, 138, 140, 143,
        144, 146, 147, 148, 149, 150, 151, 153, 155, 156, 157,
        158, 159, 160, 161, 163, 164, 166, 168, 172, 173, 175,
        176, 180, 183, 184, 185, 186, 187, 188, 189, 191, 192,
        193, 194, 195, 201, 202, 203, 204, 205, 206, 207, 208,
        210, 211, 212, 213, 214, 215, 216, 217, 218, 220, 221,
        222, 224, 225, 228, 229, 231, 233, 234, 235, 237, 238,
        239, 241, 242, 244, 245, 247, 248, 250, 252, 253, 254,
        255 },
     positive |-> {
        23, 24, 26, 34, 36, 37, 38, 51, 54, 57, 61, 66, 69, 77,
        109, 113, 114, 116, 125, 126, 131, 152, 154, 165, 174,
        177, 179, 182, 197, 199, 200, 219, 236, 249, 251 }]
  }

\* << n, x, sign >> for the linear value x of each grey with a residue.
GreyResidues ==
  UNION {{<< g.n, linearRGB_from_sRGB(v), -1 >> : v \in g.negative}
           \cup {<< g.n, linearRGB_from_sRGB(v), 1 >> : v \in g.positive} :
         g \in GreyDotWithSepPlane}

\* The dot product for a residue of the given sign: one unit below or above 0.
ResidueDot(sign) == IF sign < 0 THEN << -1, 999 >> ELSE << 0, 1 >>

\* rgb[0]*n[0] + rgb[1]*n[1] + rgb[2]*n[2] in exact arithmetic: the pair
\* <<q, r>> stands for q*1000 + r in 1/(LinScale*CoefScale), 0 <= r < 1000.
DotWithSepPlane_Exact(rgb, n) ==
  LET A == n[1] * Hi(rgb[1]) + n[2] * Hi(rgb[2]) + n[3] * Hi(rgb[3])
      B == n[1] * Lo(rgb[1]) + n[2] * Lo(rgb[2]) + n[3] * Lo(rgb[3])
  IN  << A + (B \div 1000), B % 1000 >>

\* dotWithSepPlane = rgb[0]*n[0] + rgb[1]*n[1] + rgb[2]*n[2]: the exact
\* value, except for a grey with a residue.
DotWithSepPlane(rgb, n) ==
  IF rgb[1] = rgb[2] /\ rgb[2] = rgb[3] /\ << n, rgb[1], -1 >> \in GreyResidues
  THEN ResidueDot(-1)
  ELSE IF rgb[1] = rgb[2] /\ rgb[2] = rgb[3] /\ << n, rgb[1], 1 >> \in GreyResidues
  THEN ResidueDot(1)
  ELSE DotWithSepPlane_Exact(rgb, n)

DotIsZero(dot) == dot[1] = 0 /\ dot[2] = 0

DotIsNegative(dot) == dot[1] < 0

\* Mutant: a strict comparison, dotWithSepPlane > 0.
BrettelPlane_Strict(dot) == IF ~DotIsNegative(dot) /\ ~DotIsZero(dot) THEN 1 ELSE 2

\* Mutant: the two matrices exchanged.
BrettelPlane_Inverted(dot) == IF DotIsNegative(dot) THEN 1 ELSE 2

\* dotWithSepPlane >= 0 ? plane 1 : plane 2
BrettelPlane(dot) == IF ~DotIsNegative(dot) THEN 1 ELSE 2

PlaneMatrix(params, plane) ==
  IF plane = 1 THEN params.rgbCvdFromRgb_1 ELSE params.rgbCvdFromRgb_2

\* Mutant: the two weights exchanged.
BrettelBlend_Swapped(severity, cvd, rgb) ==
  [i \in 1..3 |-> MulSev(severity, rgb[i]) + MulSev(SevScale - severity, cvd[i])]

\* rgb_cvd[i]*severity + rgb[i]*(1.f - severity)
BrettelBlend(severity, cvd, rgb) ==
  [i \in 1..3 |-> MulSev(severity, cvd[i]) + MulSev(SevScale - severity, rgb[i])]

\* 0.999f
VienotFullSeverity == 999

\* Mutant: the two weights exchanged.
VienotBlend_Swapped(severity, cvd, rgb) ==
  IF severity < VienotFullSeverity
  THEN [i \in 1..3 |-> MulSev(severity, rgb[i]) + MulSev(SevScale - severity, cvd[i])]
  ELSE cvd

\* Mutant: a sign error in the weight of the original, 1 + severity.
VienotBlend_SignError(severity, cvd, rgb) ==
  IF severity < VienotFullSeverity
  THEN [i \in 1..3 |-> MulSev(severity, cvd[i]) + MulSev(SevScale + severity, rgb[i])]
  ELSE cvd

\* Mutant: the interpolation at every severity.
VienotBlend_Always(severity, cvd, rgb) ==
  [i \in 1..3 |-> MulSev(severity, cvd[i]) + MulSev(SevScale - severity, rgb[i])]

\* if (severity < 0.999f) rgb_cvd[i] = severity*rgb_cvd[i] + (1.f - severity)*rgb[i]
VienotBlend(severity, cvd, rgb) ==
  IF severity < VienotFullSeverity
  THEN [i \in 1..3 |-> MulSev(severity, cvd[i]) + MulSev(SevScale - severity, rgb[i])]
  ELSE cvd

\* The plane dl_simulate_cvd_brettel1997 projects a pixel on.
BrettelPlaneOf(deficiency, srgb) ==
  BrettelPlane(DotWithSepPlane(DecodeRgb(srgb),
                               BrettelParamsOf(deficiency).separationPlaneNormalInRgb))

\* The value of an expression, computed once: the element of a singleton.
\* The code keeps rgb_cvd and the blended colour in local arrays; binding them
\* here keeps an evaluation from recomputing them at every use.
Value(S) == CHOOSE x \in S : TRUE

\* One pixel of dl_simulate_cvd_brettel1997: the linear colour written back,
\* before encoding.
BrettelLinear(deficiency, severity, srgb) ==
  LET rgb == DecodeRgb(srgb)
      m   == PlaneMatrix(BrettelParamsOf(deficiency), BrettelPlaneOf(deficiency, srgb))
  IN  Value({BrettelBlend(severity, rgb_cvd, rgb) : rgb_cvd \in {MatVec(m, rgb)}})

\* One pixel of dl_simulate_cvd_vienot1999.
VienotLinear(deficiency, severity, srgb) ==
  LET rgb == DecodeRgb(srgb)
  IN  Value({VienotBlend(severity, rgb_cvd, rgb) :
               rgb_cvd \in {MatVec(VienotMatrixOf(deficiency), rgb)}})

BrettelPixel(deficiency, severity, srgb) ==
  Value({EncodeRgb(lin) : lin \in {BrettelLinear(deficiency, severity, srgb)}})

VienotPixel(deficiency, severity, srgb) ==
  Value({EncodeRgb(lin) : lin \in {VienotLinear(deficiency, severity, srgb)}})

(***************************************************************************)
(* The two formulations of the Brettel algorithm in the revisions of       *)
(* libDaltonLens.c that have both: the one that goes through LMS           *)
(* explicitly, and the one with a 3x3 RGB matrix per half-plane that was   *)
(* folded from the same LMS model.  Their tables carry the names of the    *)
(* source with a prefix, as the names themselves are those of the tables   *)
(* above.  LMS coordinates are integers in 1/LmsScale.                     *)
(***************************************************************************)
LmsScale == 100000000

LMS_from_linearRGB ==
  << 17886, 43997,  3597,
      3380, 27515,  3621,
        31,   192,  1528 >>

linearRGB_from_LMS ==
  << 800533, -1288195, 1168065,
     -97821,   526945, -1018300,
      -4017,   -39885,  6648079 >>

lms_brettel_protan_params ==
  [lmsElementToProject |-> 0,
   projectionOnPlane1 |-> << 0, 218394, -565554 >>,
   projectionOnPlane2 |-> << 0, 216614, -530455 >>,
   separationPlaneNormal |-> << 0, 1751, -34516 >>]

lms_brettel_deutan_params ==
  [lmsElementToProject |-> 1,
   projectionOnPlane1 |-> << 46165, 0, 244885 >>,
   projectionOnPlane2 |-> << 45789, 0, 258960 >>,
   separationPlaneNormal |-> << -1751, 0, 65480 >>]

lms_brettel_tritan_params ==
  [lmsElementToProject |-> 2,
   projectionOnPlane1 |-> << -213, 5477, 0 >>,
   projectionOnPlane2 |-> << -6195, 16826, 0 >>,
   separationPlaneNormal |-> << 34516, -65480, 0 >>]

rgb_brettel_protan_params ==
  [rgbCvdFromRgb_1 |-> << 14510, 120165, -34675,
                          10447,  85316,   4237,
                            429,   -603, 100174 >>,
   rgbCvdFromRgb_2 |-> << 14115, 116782, -30897,
                          10495,  85730,   3776,
                            431,   -586, 100155 >>,
   separationPlaneNormalInRgb |-> << 48, 416, -464 >>]

rgb_brettel_deutan_params ==
  [rgbCvdFromRgb_1 |-> << 36198,  86755, -22953,
                          26099,  64512,   9389,
                          -1975,   2686,  99289 >>,
   rgbCvdFromRgb_2 |-> << 37009,  88540, -25549,
                          25767,  63782,  10451,
                          -1950,   2741,  99209 >>,
   separationPlaneNormalInRgb |-> << -293, -645, 938 >>]

rgb_brettel_tritan_params ==
  [rgbCvdFromRgb_1 |-> << 101354,  14268, -15622,
                           -1181,  87561,  13619,
                            7707,  81208,  11085 >>,
   rgbCvdFromRgb_2 |-> <<  93337,  19999, -13336,
                            5809,  82565,  11626,
                          -37923, 113825,  24098 >>,
   separationPlaneNormalInRgb |-> << 3960, -2831, -1129 >>]

\* switch (deficiency) of the explicit formulation
LmsParamsOf(d) ==
  CASE d = DLDeficiency_Protan -> lms_brettel_protan_params
    [] d = DLDeficiency_Deutan -> lms_brettel_deutan_params
    [] d = DLDeficiency_Tritan -> lms_brettel_tritan_params
    [] OTHER -> NULL

\* switch (deficiency) of the folded formulation
RgbParamsOf(d) ==
  CASE d = DLDeficiency_Protan -> rgb_brettel_protan_params
    [] d = DLDeficiency_Deutan -> rgb_brettel_deutan_params
    [] d = DLDeficiency_Tritan -> rgb_brettel_tritan_params
    [] OTHER -> NULL

\* lms = LMS_from_linearRGB * rgb: each row is the exact sum, rounded to the
\* nearest 1/LmsScale.
LmsRow(i, rgb) ==
  LET m == LMS_from_linearRGB
      A == m[i] * Hi(rgb[1]) + m[i+1] * Hi(rgb[2]) + m[i+2] * Hi(rgb[3])
      B == m[i] * Lo(rgb[1]) + m[i+1] * Lo(rgb[2]) + m[i+2] * Lo(rgb[3])
  IN  A + ((B + 500) \div 1000)

LmsOf(rgb) == << LmsRow(1, rgb), LmsRow(4, rgb), LmsRow(7, rgb) >>

\* dotWithSepPlane = lms[0]*n[0] + lms[1]*n[1] + lms[2]*n[2], exactly: the
\* pair <<q, r>> stands for q*10000 + r in 1/(LmsScale*CoefScale),
\* 0 <= r < 10000.
LmsDotWithSepPlane(lms, n) ==
  LET A == n[1] * (lms[1] \div 10000) + n[2] * (lms[2] \div 10000) + n[3] * (lms[3] \div 10000)
      B == n[1] * (lms[1] % 10000) + n[2] * (lms[2] % 10000) + n[3] * (lms[3] % 10000)
  IN  << A + (B \div 10000), B % 10000 >>

\* c * v for a coefficient c scaled by CoefScale and v in 1/LmsScale, rounded
\* to the nearest 1/LmsScale; both are split so that no product overflows.
MulCoef(c, v) ==
  LET M == Hi(c) * Lo(v) + Lo(c) * Hi(v)
      L == Lo(c) * Lo(v)
  IN  Hi(c) * Hi(v) * 10 + (M \div 100)
        + (((M % 100) * 1000 + L + (CoefScale \div 2)) \div CoefScale)

Dot3(m, i, lms) ==
  MulCoef(m[i], lms[1]) + MulCoef(m[i+1], lms[2]) + MulCoef(m[i+2], lms[3])

\* Which of the two formulations chose plane 1 or plane 2 for a pixel.
LmsPlaneOf(deficiency, srgb) ==
  BrettelPlane(LmsDotWithSepPlane(LmsOf(DecodeRgb(srgb)),
                                  LmsParamsOf(deficiency).separationPlaneNormal))

RgbPlaneOf(deficiency, srgb) ==
  BrettelPlane(DotWithSepPlane(DecodeRgb(srgb),
                               RgbParamsOf(deficiency).separationPlaneNormalInRgb))

\* Mutant: the projected coordinate replaces the original at any severity.
LmsBlend_Full(severity, projected, original) == projected

\* (projected_element*severity) + (lms[lmsElementToProject]*(1.f-severity))
LmsBlend(severity, projected, original) ==
  MulSev(severity, projected) + MulSev(SevScale - severity, original)

\* The body of the pixel loop of the explicit formulation, up to the linear
\* colour it encodes, in 1/LinScale.
LmsLinear(deficiency, severity, srgb) ==
  LET params == LmsParamsOf(deficiency)
      lms == LmsOf(DecodeRgb(srgb))
      projectionOnPlane == IF LmsPlaneOf(deficiency, srgb) = 1
                           THEN params.projectionOnPlane1
                           ELSE params.projectionOnPlane2
      projected_element == Dot3(projectionOnPlane, 1, lms)
      k == params.lmsElementToProject + 1
      lms2 == [lms EXCEPT ![k] = LmsBlend(severity, projected_element, lms[k])]
  IN  [i \in 1..3 |->
         (Dot3(linearRGB_from_LMS, 3 * (i - 1) + 1, lms2) + 50) \div 100]

LmsPixel(deficiency, severity, srgb) ==
  EncodeRgb(LmsLinear(deficiency, severity, srgb))

\* The body of the pixel loop of the folded formulation with its own tables.
RgbLinear(deficiency, severity, srgb) ==
  LET rgb == DecodeRgb(srgb)
      m   == PlaneMatrix(RgbParamsOf(deficiency), RgbPlaneOf(deficiency, srgb))
  IN  BrettelBlend(severity, MatVec(m, rgb), rgb)

RgbPixel(deficiency, severity, srgb) ==
  EncodeRgb(RgbLinear(deficiency, severity, srgb))
(***************************************************************************)
(* State.                                                                  *)
(***************************************************************************)
VARIABLES
  pc,           \* the function being entered, or the position in its loops
  deficiency,   \* parameters of the function that is running
  severity,
  srgba_image,  \* the caller's buffer: byte offset -> byte
  width,
  height,
  bytesPerRow,
  row,          \* loop counters
  col,
  request,      \* the call the caller made
  image0,       \* the buffer as it was when the call was made
  calls,        \* the library functions entered, with the arguments received
  loads,        \* byte offset -> number of reads so far
  stores,       \* byte offset -> number of writes so far
  visited,      \* the <<row, column>> pairs transformed so far, in order
  last,         \* the latest pixel transform: function, bytes read and written, plane
  codecNext,    \* codec round trip: the next byte to convert
  codecTrip,    \* codec round trip: the results for 0 .. codecNext-1
  history,      \* the caller's record of the calls that returned, in order
  workers       \* concurrent invocations on one buffer: worker -> its position

vars ==
  << pc, deficiency, severity, srgba_image, width, height, bytesPerRow, row, col,
     request, image0, calls, loads, stores, visited, last, codecNext, codecTrip,
     history, workers >>

walkVars ==
  << pc, deficiency, severity, srgba_image, width, height, bytesPerRow, row, col,
     request, image0, calls, loads, stores, visited, last >>

codecVars == << codecNext, codecTrip >>

callerVars == << history, workers >>

EntryPoints ==
  {"dl_simulate_cvd", "dl_simulate_cvd_brettel1997", "dl_simulate_cvd_vienot1999"}

\* Severities in 1/SevScale: below 0, 0, 0.55, 0.999, 1.0 and above 1.
Severities == {-500, 0, 550, 999, 1000, 1500}

\* The severities of the calls on whole images.
WalkSeverities == {0, 550, 1000, 1500}

\* bytesPerRow as the loops use it
EffectiveStride(w, bpr) == IF bpr = 0 THEN w * 4 ELSE bpr

Max(a, b) == IF a >= b THEN a ELSE b

\* The bytes the caller owns: height rows, the last one complete.
BufLen(w, h, bpr) ==
  IF h = 0 THEN 0
  ELSE (h - 1) * EffectiveStride(w, bpr) + Max(w * 4, EffectiveStride(w, bpr))

\* Test content: black, primaries and mixed colours with varied alpha.
TestBytes ==
  <<   0,   0,   0, 128,    255,   0,   0,   7,      0,   0, 255, 200,
      64, 128,  32, 255,     11,  12,  13,   0,    200, 100,  50,  99,
       0, 255,   0,  31,    254,   1, 187,  64 >>

TestImage(seed, n) ==
  [i \in 0..(n - 1) |-> TestBytes[((i + 4 * seed) % Len(TestBytes)) + 1]]

NoPixel == [fn |-> "none"]

Zeroes(img) == [i \in DOMAIN img |-> 0]

\* A call of entry point fn with the given arguments on buffer img.
Start(fn, d, s, img, w, h, bpr) ==
  /\ pc = fn
  /\ deficiency = d
  /\ severity = s
  /\ srgba_image = img
  /\ width = w
  /\ height = h
  /\ bytesPerRow = bpr
  /\ row = 0
  /\ col = 0
  /\ request = [fn |-> fn, deficiency |-> d, severity |-> s,
                width |-> w, height |-> h, bytesPerRow |-> bpr]
  /\ image0 = img
  /\ calls = << >>
  /\ loads = Zeroes(img)
  /\ stores = Zeroes(img)
  /\ visited = << >>
  /\ last = NoPixel
  /\ codecNext = 0
  /\ codecTrip = << >>
  /\ history = << >>
  /\ workers = << >>

\* Any entry point on any geometry, valid or not: the library checks none.
Init ==
  \E fn \in EntryPoints, d \in Deficiencies, s \in WalkSeverities,
     w \in 0..MaxWidth, h \in 0..MaxHeight, seed \in 0..MaxSeed :
    \E bpr \in 0..(4 * w + MaxPad) :
      Start(fn, d, s, TestImage(seed, BufLen(w, h, bpr)), w, h, bpr)

(***************************************************************************)
(* dl_simulate_cvd                                                         *)
(***************************************************************************)
\* Mutant: Vienot for every deficiency.
DispatchTarget_AlwaysVienot(d) == "dl_simulate_cvd_vienot1999"

\* Mutant: Vienot for Protan only.
DispatchTarget_ProtanOnly(d) ==
  IF d = DLDeficiency_Protan
  THEN "dl_simulate_cvd_vienot1999"
  ELSE "dl_simulate_cvd_brettel1997"

\* if (deficiency == DLDeficiency_Tritan) brettel else vienot
DispatchTarget(d) ==
  IF d = DLDeficiency_Tritan
  THEN "dl_simulate_cvd_brettel1997"
  ELSE "dl_simulate_cvd_vienot1999"

\* The arguments dl_simulate_cvd passes on.
Forwarded ==
  [deficiency |-> deficiency, severity |-> severity,
   width |-> width, height |-> height, bytesPerRow |-> bytesPerRow]

\* The entry of function fn in the call log, with the arguments it received.
Received(fn) ==
  [fn |-> fn, deficiency |-> deficiency, severity |-> severity,
   width |-> width, height |-> height, bytesPerRow |-> bytesPerRow]

dl_simulate_cvd ==
  /\ pc = "dl_simulate_cvd"
  /\ pc' = DispatchTarget(deficiency)
  /\ deficiency' = Forwarded.deficiency
  /\ severity' = Forwarded.severity
  /\ width' = Forwarded.width
  /\ height' = Forwarded.height
  /\ bytesPerRow' = Forwarded.bytesPerRow
  /\ calls' = Append(calls, Received("dl_simulate_cvd"))
  /\ UNCHANGED << srgba_image, row, col, request, image0, loads, stores, visited, last >>
  /\ UNCHANGED codecVars
  /\ UNCHANGED callerVars

(***************************************************************************)
(* Buffer access.                                                          *)
(***************************************************************************)
InBuffer(img, offs) == \A i \in 1..Len(offs) : offs[i] \in DOMAIN img

\* Mutant: each byte is read from the pixel before, where there is one.
ReadAt_PixelBefore(img, offs) ==
  [i \in 1..Len(offs) |-> img[IF offs[i] >= 4 THEN offs[i] - 4 ELSE offs[i]]]

ReadAt(img, offs) == [i \in 1..Len(offs) |-> img[offs[i]]]

\* The stores take effect in order.
RECURSIVE WriteAt(_, _, _)
WriteAt(img, offs, vals) ==
  IF offs = << >> THEN img
  ELSE WriteAt([img EXCEPT ![Head(offs)] = Head(vals)], Tail(offs), Tail(vals))

Touched(cnt, offs) ==
  [o \in DOMAIN cnt |-> cnt[o] + Cardinality({i \in 1..Len(offs) : offs[i] = o})]

\* The bookkeeping of one pixel transform by function fn at rowPtr + c:
\* bytes at offsets ld are read, out is computed from them and written at st.
\* An access outside the caller's buffer is undefined behaviour; Init sizes
\* the buffer so that no access of the code is outside it.
TransformPixel(fn, ld, st, out, plane) ==
  IF InBuffer(srgba_image, ld) /\ InBuffer(srgba_image, st)
  THEN \E rgb_out \in {out} :
         /\ srgba_image' = WriteAt(srgba_image, st, rgb_out)
         /\ loads' = Touched(loads, ld)
         /\ stores' = Touched(stores, st)
         /\ visited' = Append(visited, << row, col \div 4 >>)
         /\ last' = [fn |-> fn, srgb |-> ReadAt(srgba_image, ld), out |-> rgb_out,
                     severity |-> severity, deficiency |-> deficiency,
                     plane |-> plane]
         /\ col' = col + 4
         /\ pc' = pc
  ELSE /\ pc' = "undefined"
       /\ UNCHANGED << srgba_image, loads, stores, visited, last, col >>

(***************************************************************************)
(* dl_simulate_cvd_brettel1997                                             *)
(***************************************************************************)
\* Mutant: no default for bytesPerRow = 0.
BrettelBytesPerRow_NoDefault == bytesPerRow

\* Mutant: a stride smaller than a row is widened to the row.
BrettelBytesPerRow_Widened == IF bytesPerRow < width * 4 THEN width * 4 ELSE bytesPerRow

\* if (bytesPerRow == 0) bytesPerRow = width * 4;
BrettelBytesPerRow == IF bytesPerRow = 0 THEN width * 4 ELSE bytesPerRow

BrettelEnter ==
  /\ pc = "dl_simulate_cvd_brettel1997"
  /\ calls' = Append(calls, Received("dl_simulate_cvd_brettel1997"))
  /\ bytesPerRow' = BrettelBytesPerRow
  /\ row' = 0
  /\ pc' = "brettel_row"
  /\ UNCHANGED << deficiency, severity, srgba_image, width, height, col,
                  request, image0, loads, stores, visited, last >>
  /\ UNCHANGED codecVars
  /\ UNCHANGED callerVars

\* Mutant: one row too many, row <= height.
BrettelRowCond_Inclusive == row <= height

\* row < height
BrettelRowCond == row < height

\* Mutant: the last pixel of each row is left out.
BrettelColCond_SkipsLast == col + 4 < width * 4

\* col < width*4
BrettelColCond == col < width * 4

\* rowPtr = srgba_image + bytesPerRow*row
BrettelRowPtr == bytesPerRow * row

\* rowPtr[col + 0], rowPtr[col + 1], rowPtr[col + 2] are read
BrettelLoads == << BrettelRowPtr + col, BrettelRowPtr + col + 1, BrettelRowPtr + col + 2 >>

\* rowPtr[col + 0], rowPtr[col + 1], rowPtr[col + 2] are written
BrettelStores == << BrettelRowPtr + col, BrettelRowPtr + col + 1, BrettelRowPtr + col + 2 >>

BrettelRow ==
  /\ pc = "brettel_row"
  /\ BrettelRowCond
  /\ col' = 0
  /\ pc' = "brettel_col"
  /\ UNCHANGED << deficiency, severity, srgba_image, width, height, bytesPerRow, row,
                  request, image0, calls, loads, stores, visited, last >>
  /\ UNCHANGED codecVars
  /\ UNCHANGED callerVars

BrettelReturn ==
  /\ pc = "brettel_row"
  /\ ~BrettelRowCond
  /\ pc' = "done"
  /\ UNCHANGED << deficiency, severity, srgba_image, width, height, bytesPerRow, row, col,
                  request, image0, calls, loads, stores, visited, last >>
  /\ UNCHANGED codecVars
  /\ UNCHANGED callerVars

BrettelCol ==
  /\ pc = "brettel_col"
  /\ BrettelColCond
  /\ ~SwitchMatchesNoCase(deficiency)
  /\ TransformPixel("dl_simulate_cvd_brettel1997", BrettelLoads, BrettelStores,
                    IF InBuffer(srgba_image, BrettelLoads)
                    THEN BrettelPixel(deficiency, severity,
                                      ReadAt(srgba_image, BrettelLoads))
                    ELSE << >>,
                    IF InBuffer(srgba_image, BrettelLoads)
                    THEN BrettelPlaneOf(deficiency, ReadAt(srgba_image, BrettelLoads))
                    ELSE 0)
  /\ UNCHANGED << deficiency, severity, width, height, bytesPerRow, row,
                  request, image0, calls >>
  /\ UNCHANGED codecVars
  /\ UNCHANGED callerVars

BrettelRowEnd ==
  /\ pc = "brettel_col"
  /\ ~BrettelColCond
  /\ row' = row + 1
  /\ pc' = "brettel_row"
  /\ UNCHANGED << deficiency, severity, srgba_image, width, height, bytesPerRow, col,
                  request, image0, calls, loads, stores, visited, last >>
  /\ UNCHANGED codecVars
  /\ UNCHANGED callerVars

(***************************************************************************)
(* dl_simulate_cvd_vienot1999                                              *)
(***************************************************************************)
\* if (bytesPerRow == 0) bytesPerRow = width * 4;
VienotBytesPerRow == IF bytesPerRow = 0 THEN width * 4 ELSE bytesPerRow

VienotEnter ==
  /\ pc = "dl_simulate_cvd_vienot1999"
  /\ calls' = Append(calls, Received("dl_simulate_cvd_vienot1999"))
  /\ bytesPerRow' = VienotBytesPerRow
  /\ row' = 0
  /\ pc' = "vienot_row"
  /\ UNCHANGED << deficiency, severity, srgba_image, width, height, col,
                  request, image0, loads, stores, visited, last >>
  /\ UNCHANGED codecVars
  /\ UNCHANGED callerVars

\* row < height
VienotRowCond == row < height

\* Mutant: the row is walked to the stride rather than to width*4.
VienotColCond_ToStride == col < bytesPerRow

\* Mutant: a flag that outlives the call ends the walk of every later call.
VienotColCond_FirstCallOnly == col < width * 4 /\ Len(history) = 0

\* col < width*4
VienotColCond == col < width * 4

\* rowPtr = srgba_image + bytesPerRow*row
VienotRowPtr == bytesPerRow * row

\* rowPtr[col + 0], rowPtr[col + 1], rowPtr[col + 2] are read
VienotLoads == << VienotRowPtr + col, VienotRowPtr + col + 1, VienotRowPtr + col + 2 >>

\* Mutant: channel indices one too high, so that G, B and A are written.
VienotStores_Shifted ==
  << bytesPerRow * row + col + 1, bytesPerRow * row + col + 2, bytesPerRow * row + col + 3 >>

\* rowPtr[col + 0], rowPtr[col + 1], rowPtr[col + 2] are written
VienotStores == << VienotRowPtr + col, VienotRowPtr + col + 1, VienotRowPtr + col + 2 >>

VienotRow ==
  /\ pc = "vienot_row"
  /\ VienotRowCond
  /\ col' = 0
  /\ pc' = "vienot_col"
  /\ UNCHANGED << deficiency, severity, srgba_image, width, height, bytesPerRow, row,
                  request, image0, calls, loads, stores, visited, last >>
  /\ UNCHANGED codecVars
  /\ UNCHANGED callerVars

VienotReturn ==
  /\ pc = "vienot_row"
  /\ ~VienotRowCond
  /\ pc' = "done"
  /\ UNCHANGED << deficiency, severity, srgba_image, width, height, bytesPerRow, row, col,
                  request, image0, calls, loads, stores, visited, last >>
  /\ UNCHANGED codecVars
  /\ UNCHANGED callerVars

VienotCol ==
  /\ pc = "vienot_col"
  /\ VienotColCond
  /\ ~SwitchMatchesNoCase(deficiency)
  /\ TransformPixel("dl_simulate_cvd_vienot1999", VienotLoads, VienotStores,
                    IF InBuffer(srgba_image, VienotLoads)
                    THEN VienotPixel(deficiency, severity,
                                     ReadAt(srgba_image, VienotLoads))
                    ELSE << >>,
                    0)
  /\ UNCHANGED << deficiency, severity, width, height, bytesPerRow, row,
                  request, image0, calls >>
  /\ UNCHANGED codecVars
  /\ UNCHANGED callerVars

VienotRowEnd ==
  /\ pc = "vienot_col"
  /\ ~VienotColCond
  /\ row' = row + 1
  /\ pc' = "vienot_row"
  /\ UNCHANGED << deficiency, severity, srgba_image, width, height, bytesPerRow, col,
                  request, image0, calls, loads, stores, visited, last >>
  /\ UNCHANGED codecVars
  /\ UNCHANGED callerVars

(***************************************************************************)
(* The buffer a complete run of each algorithm leaves, as one function of  *)
(* the buffer it is given: the loops from <<r, c>> on, with stride the     *)
(* value bytesPerRow has in the loops.                                     *)
(***************************************************************************)
RECURSIVE BrettelImage(_, _, _, _, _, _, _, _)
BrettelImage(d, s, img, w, h, stride, r, c) ==
  IF ~(r < h) THEN img
  ELSE IF ~(c < w * 4) THEN BrettelImage(d, s, img, w, h, stride, r + 1, 0)
  ELSE LET offs == << stride * r + c, stride * r + c + 1, stride * r + c + 2 >>
       IN  BrettelImage(d, s, WriteAt(img, offs, BrettelPixel(d, s, ReadAt(img, offs))),
                        w, h, stride, r, c + 4)

RECURSIVE VienotImage(_, _, _, _, _, _, _, _)
VienotImage(d, s, img, w, h, stride, r, c) ==
  IF ~(r < h) THEN img
  ELSE IF ~(c < w * 4) THEN VienotImage(d, s, img, w, h, stride, r + 1, 0)
  ELSE LET offs == << stride * r + c, stride * r + c + 1, stride * r + c + 2 >>
       IN  VienotImage(d, s, WriteAt(img, offs, VienotPixel(d, s, ReadAt(img, offs))),
                       w, h, stride, r, c + 4)

Next ==
  \/ dl_simulate_cvd
  \/ BrettelEnter
  \/ BrettelRow
  \/ BrettelCol
  \/ BrettelRowEnd
  \/ BrettelReturn
  \/ VienotEnter
  \/ VienotRow
  \/ VienotCol
  \/ VienotRowEnd
  \/ VienotReturn

Spec == Init /\ [][Next]_vars

\* The call runs on the caller's thread with nothing to wait for: a step that
\* can be taken is taken.
LiveSeverity == 550

\* Any entry point on any geometry, at one severity.
InitLive ==
  \E fn \in EntryPoints, d \in Deficiencies, w \in 0..MaxWidth, h \in 0..MaxHeight :
    \E bpr \in 0..(4 * w + MaxPad) :
      Start(fn, d, LiveSeverity, TestImage(0, BufLen(w, h, bpr)), w, h, bpr)

SpecLive == InitLive /\ [][Next]_vars /\ WF_vars(Next)

(***************************************************************************)
(* One pixel, many colours: a 1x1 image with the default stride.           *)
(***************************************************************************)
\* Bytes around the codec's knee, mid-range and the extremes.
ByteSamples == {0, 1, 10, 11, 128, 255}

\* Every byte value occurs in every channel.
DiagonalColours == {<< v, (v + 85) % 256, (v + 170) % 256 >> : v \in Byte}

PixelColours == (ByteSamples \X ByteSamples \X ByteSamples) \cup DiagonalColours

InitPixel ==
  \E fn \in EntryPoints, d \in Deficiencies, s \in Severities, c \in PixelColours :
    Start(fn, d, s, [i \in 0..3 |-> IF i = 3 THEN 77 ELSE c[i + 1]], 1, 1, 0)

SpecPixel == InitPixel /\ [][Next]_vars

(***************************************************************************)
(* The codec on its own: every byte decoded and encoded again.             *)
(***************************************************************************)
InitCodec ==
  /\ Start("codec", DLDeficiency_Protan, 0, << >>, 0, 0, 0)

CodecStep ==
  /\ pc = "codec"
  /\ codecNext \in Byte
  /\ codecTrip' = Append(codecTrip, sRGB_from_linearRGB(linearRGB_from_sRGB(codecNext)))
  /\ codecNext' = codecNext + 1
  /\ UNCHANGED walkVars
  /\ UNCHANGED callerVars

NextCodec == CodecStep

SpecCodec == InitCodec /\ [][NextCodec]_vars


(***************************************************************************)
(* A deficiency outside the enumeration.  Neither algorithm tests its      *)
(* pointer after the switch, so the first pixel reads through NULL:        *)
(* undefined behaviour, of which two outcomes are kept: the access traps,  *)
(* or it yields arbitrary coefficients and arbitrary bytes are written.    *)
(***************************************************************************)
\* Values an enum DLDeficiency argument can carry besides the enumerators.
InvalidDeficiencies == {DLDeficiency_Protan - 1, DLDeficiency_Tritan + 1}

\* What a pixel may be overwritten with when the access does not trap.
ArbitraryColours == {<< 0, 0, 0 >>, << 255, 255, 255 >>}

NullDereference == [fn |-> "null_dereference"]

\* The first use of the pointer for the pixel at offsets offs.
ThroughNull(offs) ==
  /\ last' = NullDereference
  /\ \/ /\ pc' = "trap"
        /\ UNCHANGED << srgba_image, loads, stores, visited, col >>
     \/ /\ InBuffer(srgba_image, offs)
        /\ \E out \in ArbitraryColours : srgba_image' = WriteAt(srgba_image, offs, out)
        /\ loads' = Touched(loads, offs)
        /\ stores' = Touched(stores, offs)
        /\ visited' = Append(visited, << row, col \div 4 >>)
        /\ col' = col + 4
        /\ pc' = pc
  /\ UNCHANGED << deficiency, severity, width, height, bytesPerRow, row,
                  request, image0, calls >>
  /\ UNCHANGED codecVars
  /\ UNCHANGED callerVars

\* params->separationPlaneNormalInRgb with params == NULL
BrettelColNull ==
  /\ pc = "brettel_col"
  /\ BrettelColCond
  /\ SwitchMatchesNoCase(deficiency)
  /\ ThroughNull(BrettelStores)

\* rgbCvd_from_rgb[0] with rgbCvd_from_rgb == NULL
VienotColNull ==
  /\ pc = "vienot_col"
  /\ VienotColCond
  /\ SwitchMatchesNoCase(deficiency)
  /\ ThroughNull(VienotStores)

InitInvalid ==
  \E fn \in EntryPoints, d \in InvalidDeficiencies, s \in WalkSeverities,
     w \in 0..MaxWidth, h \in 0..MaxHeight, seed \in 0..MaxSeed :
    Start(fn, d, s, TestImage(seed, BufLen(w, h, 0)), w, h, 0)

NextInvalid ==
  \/ dl_simulate_cvd
  \/ BrettelEnter
  \/ BrettelRow
  \/ BrettelColNull
  \/ BrettelRowEnd
  \/ BrettelReturn
  \/ VienotEnter
  \/ VienotRow
  \/ VienotColNull
  \/ VienotRowEnd
  \/ VienotReturn

SpecInvalid == InitInvalid /\ [][NextInvalid]_vars

(***************************************************************************)
(* A caller that makes several calls, one after another, on one pixel:     *)
(* each call on the buffer as the previous call left it, or on the buffer  *)
(* restored to its first content.                                          *)
(***************************************************************************)
\* Primaries, colours whose simulation leaves the gamut, and mixed colours.
CallColours ==
  { << 255, 0, 0 >>, << 0, 255, 0 >>, << 0, 0, 245 >>,
    << 13, 138, 249 >>, << 200, 100, 50 >>, << 128, 128, 128 >> }

CallSeverities == {550, 1000}

Rgba(c) == [i \in 0..3 |-> IF i = 3 THEN 77 ELSE c[i + 1]]

InitCalls ==
  \E fn \in EntryPoints, d \in Deficiencies, s \in CallSeverities, c \in CallColours :
    Start(fn, d, s, Rgba(c), 1, 1, 0)

\* The call returns to the caller, who notes what it did to the buffer.
CallReturns ==
  /\ pc = "done"
  /\ pc' = "caller"
  /\ history' = Append(history, [request |-> request, before |-> image0,
                                 after |-> srgba_image])
  /\ UNCHANGED << deficiency, severity, srgba_image, width, height, bytesPerRow,
                  row, col, request, image0, calls, loads, stores, visited, last >>
  /\ UNCHANGED << codecVars, workers >>

\* The caller calls again, through any entry point.
CallerCalls ==
  /\ pc = "caller"
  /\ Len(history) < MaxCalls
  /\ \E fn \in EntryPoints, restore \in BOOLEAN :
       LET img == IF restore THEN history[1].before ELSE srgba_image
       IN  /\ pc' = fn
           /\ deficiency' = request.deficiency
           /\ bytesPerRow' = request.bytesPerRow
           /\ row' = 0
           /\ col' = 0
           /\ srgba_image' = img
           /\ request' = [request EXCEPT !.fn = fn]
           /\ image0' = img
           /\ calls' = << >>
           /\ loads' = Zeroes(img)
           /\ stores' = Zeroes(img)
           /\ visited' = << >>
           /\ last' = NoPixel
  /\ UNCHANGED << severity, width, height, history >>
  /\ UNCHANGED << codecVars, workers >>

NextCalls ==
  \/ Next
  \/ CallReturns
  \/ CallerCalls

SpecCalls == InitCalls /\ [][NextCalls]_vars

(***************************************************************************)
(* A caller that splits the rows of its buffer in two contiguous ranges    *)
(* and runs one invocation on each range concurrently: invocation i is     *)
(* fn(deficiency, severity, srgba_image + base, width, rows, bytesPerRow). *)
(* A pixel is two steps of an invocation, the three loads and, after the   *)
(* arithmetic, the three stores; steps of the two invocations interleave.  *)
(***************************************************************************)
RowSeverity == 550

\* The algorithm an invocation through entry point fn runs.
AlgorithmOf(fn, d) == IF fn = "dl_simulate_cvd" THEN DispatchTarget(d) ELSE fn

\* Invocation state: the rows [first, first + rows) of the image.
Worker(fn, d, w, bpr, first, rows) ==
  [pc |-> "load", fn |-> AlgorithmOf(fn, d),
   base |-> first * EffectiveStride(w, bpr), height |-> rows,
   bytesPerRow |-> EffectiveStride(w, bpr),
   row |-> 0, col |-> 0, srgb |-> << >>, reads |-> {}, writes |-> {}]

InitRows ==
  \E fn \in EntryPoints, d \in Deficiencies, w \in 1..MaxWidth, h \in 1..MaxHeight :
    \E bpr \in {0} \cup ((4 * w)..(4 * w + MaxPad)) :
      Start(fn, d, RowSeverity, TestImage(0, BufLen(w, h, bpr)), w, h, bpr)

\* In place of one call of request.fn on the whole buffer, the caller starts
\* the two invocations, the second at row k.
Fork ==
  /\ pc = request.fn
  /\ \E k \in 0..height :
       workers' = << Worker(request.fn, deficiency, width, bytesPerRow, 0, k),
                     Worker(request.fn, deficiency, width, bytesPerRow, k, height - k) >>
  /\ pc' = "join"
  /\ UNCHANGED << deficiency, severity, srgba_image, width, height, bytesPerRow,
                  row, col, request, image0, calls, loads, stores, visited, last >>
  /\ UNCHANGED << codecVars, history >>

\* Mutant: the invocation's pointer is not advanced to its first row.
WorkerRowPtr_FromTop(i) == workers[i].bytesPerRow * workers[i].row

\* rowPtr = srgba_image + bytesPerRow*row, srgba_image being the pointer the
\* invocation was given
WorkerRowPtr(i) == workers[i].base + workers[i].bytesPerRow * workers[i].row

WorkerOffsets(i) ==
  << WorkerRowPtr(i) + workers[i].col, WorkerRowPtr(i) + workers[i].col + 1,
     WorkerRowPtr(i) + workers[i].col + 2 >>

SetOf(offs) == {offs[k] : k \in 1..Len(offs)}

\* The end of a row: col < width*4 fails, ++row
AfterPixel(wk) ==
  IF wk.col + 4 < width * 4
  THEN [wk EXCEPT !.col = wk.col + 4, !.pc = "load"]
  ELSE [wk EXCEPT !.col = 0, !.row = wk.row + 1, !.pc = "load"]

WorkerLoad(i) ==
  /\ pc = "join"
  /\ workers[i].pc = "load"
  /\ workers[i].row < workers[i].height
  /\ InBuffer(srgba_image, WorkerOffsets(i))
  /\ workers' = [workers EXCEPT ![i].srgb = ReadAt(srgba_image, WorkerOffsets(i)),
                                ![i].reads = @ \cup SetOf(WorkerOffsets(i)),
                                ![i].pc = "store"]
  /\ UNCHANGED << walkVars, codecVars, history >>

WorkerStore(i) ==
  /\ pc = "join"
  /\ workers[i].pc = "store"
  /\ srgba_image' =
       WriteAt(srgba_image, WorkerOffsets(i),
               IF workers[i].fn = "dl_simulate_cvd_brettel1997"
               THEN BrettelPixel(deficiency, severity, workers[i].srgb)
               ELSE VienotPixel(deficiency, severity, workers[i].srgb))
  /\ workers' = [workers EXCEPT ![i] =
                   AfterPixel([@ EXCEPT !.writes = @ \cup SetOf(WorkerOffsets(i))])]
  /\ UNCHANGED << pc, deficiency, severity, width, height, bytesPerRow, row, col,
                  request, image0, calls, loads, stores, visited, last >>
  /\ UNCHANGED << codecVars, history >>

\* row < height fails: the invocation returns
WorkerReturn(i) ==
  /\ pc = "join"
  /\ workers[i].pc = "load"
  /\ ~(workers[i].row < workers[i].height)
  /\ workers' = [workers EXCEPT ![i].pc = "done"]
  /\ UNCHANGED << walkVars, codecVars, history >>

\* The caller joins the two invocations.
Join ==
  /\ pc = "join"
  /\ \A i \in DOMAIN workers : workers[i].pc = "done"
  /\ pc' = "done"
  /\ UNCHANGED << deficiency, severity, srgba_image, width, height, bytesPerRow,
                  row, col, request, image0, calls, loads, stores, visited, last >>
  /\ UNCHANGED << codecVars, callerVars >>

NextRows ==
  \/ Fork
  \/ \E i \in DOMAIN workers : WorkerLoad(i)
  \/ \E i \in DOMAIN workers : WorkerStore(i)
  \/ \E i \in DOMAIN workers : WorkerReturn(i)
  \/ Join

SpecRows == InitRows /\ [][NextRows]_vars

(***************************************************************************)
(* The two formulations side by side: each is run once on its own copy of  *)
(* the same 1x1 image, and the caller keeps what each of them did.         *)
(***************************************************************************)
\* Colours next to a separation plane, where the two normals may disagree.
NearPlaneColours ==
  { << 0, 53, 50 >>, << 8, 255, 243 >>, << 0, 159, 134 >>, << 17, 237, 201 >>,
    << 216, 250, 28 >>, << 0, 1, 228 >> }

FormColours == PixelColours \cup CallColours \cup NearPlaneColours

FormSeverities == {0, 550, 1000}

Formulations == {"lms", "rgb"}

InitForms ==
  \E d \in Deficiencies, s \in FormSeverities, c \in FormColours :
    Start("forms", d, s, Rgba(c), 1, 1, 0)

Ran(form) == \E i \in 1..Len(history) : history[i].form = form

ResultOf(form) == history[CHOOSE i \in 1..Len(history) : history[i].form = form]

SrgbOf(img) == << img[0], img[1], img[2] >>

\* dl_simulate_cvd_brettel1997 of the explicit formulation on a 1x1 image.
LmsBrettel ==
  /\ pc = "forms"
  /\ ~Ran("lms")
  /\ LET srgb == SrgbOf(srgba_image)
         out  == LmsPixel(deficiency, severity, srgb)
     IN  history' = Append(history,
           [form |-> "lms", plane |-> LmsPlaneOf(deficiency, srgb),
            after |-> [i \in 0..3 |-> IF i = 3 THEN srgba_image[3] ELSE out[i + 1]]])
  /\ UNCHANGED << walkVars, codecVars, workers >>

\* dl_simulate_cvd_brettel1997 of the folded formulation on a 1x1 image.
RgbBrettel ==
  /\ pc = "forms"
  /\ ~Ran("rgb")
  /\ LET srgb == SrgbOf(srgba_image)
         out  == RgbPixel(deficiency, severity, srgb)
     IN  history' = Append(history,
           [form |-> "rgb", plane |-> RgbPlaneOf(deficiency, srgb),
            after |-> [i \in 0..3 |-> IF i = 3 THEN srgba_image[3] ELSE out[i + 1]]])
  /\ UNCHANGED << walkVars, codecVars, workers >>

NextForms == LmsBrettel \/ RgbBrettel

SpecForms == InitForms /\ [][NextForms]_vars

(***************************************************************************)
(* Severities that are not finite.  A float that is not finite is one of   *)
(* "nan", "+inf", "-inf"; products and sums follow IEEE 754.               *)
(***************************************************************************)
NonFinite == {"nan", "+inf", "-inf"}

Negated(f) == CASE f = "+inf" -> "-inf" [] f = "-inf" -> "+inf" [] OTHER -> "nan"

\* f * x for a finite x: infinity times zero is not a number.
TimesFinite(f, x) ==
  IF f = "nan" \/ x = 0 THEN "nan"
  ELSE IF x > 0 THEN f ELSE Negated(f)

\* a + b: infinities of opposite sign give not a number.
PlusNonFinite(a, b) == IF a = b THEN a ELSE "nan"

\* rgb_cvd[i]*severity + rgb[i]*(1.f - severity), with 1.f - severity the
\* infinity of the other sign
BlendNonFinite(s, cvd, rgb) ==
  [i \in 1..3 |-> PlusNonFinite(TimesFinite(s, cvd[i]),
                                TimesFinite(Negated(s), rgb[i]))]

\* The conversion of a float that is not a number to unsigned char is
\* undefined: any byte may come out.
NanBytes == {0, 128, 255}

\* sRGB_from_linearRGB on a float that is not finite: v <= 0.f catches
\* "-inf", v >= 1.f catches "+inf"; every comparison with "nan" is false, so
\* it reaches the last return, whose conversion is undefined.
sRGB_from_nonfinite(v, garbage) ==
  IF v = "-inf" THEN 0
  ELSE IF v = "+inf" THEN 255
  ELSE garbage

\* severity < 0.999f, false for "nan" and "+inf"
VienotBlendsNonFinite(s) == s = "-inf"

InitNonFinite ==
  \E fn \in {"dl_simulate_cvd_brettel1997", "dl_simulate_cvd_vienot1999"},
     d \in Deficiencies, s \in NonFinite, c \in CallColours \cup {<< 0, 0, 0 >>} :
    Start(fn, d, s, Rgba(c), 1, 1, 0)

\* The pixel written when the colour to encode is lin, finite or not.
WritesNonFinite(fn, lin) ==
  \E garbage \in [1..3 -> NanBytes] :
    LET out == [i \in 1..3 |-> sRGB_from_nonfinite(lin[i], garbage[i])]
    IN  /\ srgba_image' = [srgba_image EXCEPT ![0] = out[1], ![1] = out[2], ![2] = out[3]]
        /\ history' = Append(history, [fn |-> fn, linear |-> lin, out |-> out])
        /\ pc' = "done"
        /\ UNCHANGED << deficiency, severity, width, height, bytesPerRow, row, col,
                        request, image0, calls, loads, stores, visited, last >>
        /\ UNCHANGED << codecVars, workers >>

\* dl_simulate_cvd_brettel1997 on a 1x1 image: the blend is always computed.
BrettelNonFinite ==
  /\ pc = "dl_simulate_cvd_brettel1997"
  /\ LET srgb == SrgbOf(srgba_image)
         rgb == DecodeRgb(srgb)
         m == PlaneMatrix(BrettelParamsOf(deficiency), BrettelPlaneOf(deficiency, srgb))
     IN  WritesNonFinite("dl_simulate_cvd_brettel1997",
                         BlendNonFinite(severity, MatVec(m, rgb), rgb))

\* dl_simulate_cvd_vienot1999 on a 1x1 image whose blend is computed.
VienotNonFinite ==
  /\ pc = "dl_simulate_cvd_vienot1999"
  /\ VienotBlendsNonFinite(severity)
  /\ LET rgb == DecodeRgb(SrgbOf(srgba_image))
     IN  WritesNonFinite("dl_simulate_cvd_vienot1999",
                         BlendNonFinite(severity, MatVec(VienotMatrixOf(deficiency), rgb), rgb))

\* dl_simulate_cvd_vienot1999 on a 1x1 image whose blend is skipped: the
\* simulated colour is finite.
VienotSkipsNonFinite ==
  /\ pc = "dl_simulate_cvd_vienot1999"
  /\ ~VienotBlendsNonFinite(severity)
  /\ LET lin == VienotLinear(deficiency, SevScale, SrgbOf(srgba_image))
         out == EncodeRgb(lin)
     IN  /\ srgba_image' = [srgba_image EXCEPT ![0] = out[1], ![1] = out[2], ![2] = out[3]]
         /\ history' = Append(history, [fn |-> "dl_simulate_cvd_vienot1999",
                                        linear |-> lin, out |-> out])
  /\ pc' = "done"
  /\ UNCHANGED << deficiency, severity, width, height, bytesPerRow, row, col,
                  request, image0, calls, loads, stores, visited, last >>
  /\ UNCHANGED << codecVars, workers >>

NextNonFinite == BrettelNonFinite \/ VienotNonFinite \/ VienotSkipsNonFinite

SpecNonFinite == InitNonFinite /\ [][NextNonFinite]_vars

(***************************************************************************)
(* compare_images of the test harness: the image the library produced is   *)
(* compared with a ground-truth image loaded from a file.  srgba_image is   *)
(* inputImage, width and height are its size; history holds what stbi_load  *)
(* returned; loads counts the bytes of inputImage that were compared and    *)
(* last holds the value returned.                                           *)
(***************************************************************************)
\* How far the one byte that differs is from the ground truth.
Deltas == {0, 1, 2}

\* img with the byte at offset p moved by delta, within 0..255.
Shifted(img, p, delta) ==
  [o \in DOMAIN img |->
     IF o # p THEN img[o]
     ELSE IF img[o] + delta <= 255 THEN img[o] + delta ELSE img[o] - delta]

gtImage == history[1].image

gt_width == history[1].width

gt_height == history[1].height

\* An image of any size against a ground truth of the same height that
\* differs from it in at most one byte, or of another width.
InitCompare ==
  \E w \in 0..MaxWidth, h \in 0..MaxHeight, gw \in 0..MaxWidth, seed \in 0..MaxSeed,
     delta \in Deltas :
    \E p \in 0..(4 * w * h) :
      /\ pc = "compare_images"
      /\ deficiency = DLDeficiency_Protan
      /\ severity = SevScale
      /\ srgba_image = TestImage(seed, 4 * w * h)
      /\ width = w
      /\ height = h
      /\ bytesPerRow = 0
      /\ row = 0
      /\ col = 0
      /\ request = [fn |-> "compare_images", deficiency |-> DLDeficiency_Protan,
                    severity |-> SevScale, width |-> w, height |-> h, bytesPerRow |-> 0]
      /\ image0 = srgba_image
      /\ calls = << >>
      /\ loads = Zeroes(srgba_image)
      /\ stores = Zeroes(srgba_image)
      /\ visited = << >>
      /\ last = NoPixel
      /\ codecNext = 0
      /\ codecTrip = << >>
      /\ history = << [image |-> IF gw = w THEN Shifted(srgba_image, p, delta)
                                 ELSE TestImage(seed, 4 * gw * h),
                       width |-> gw, height |-> h] >>
      /\ workers = << >>

\* return of compare_images with value v
CompareReturns(v) ==
  /\ pc' = "done"
  /\ last' = [fn |-> "compare_images", result |-> v]

\* if (gt_width != width || gt_height != height) return 1;
CompareEnter ==
  /\ pc = "compare_images"
  /\ IF gt_width # width \/ gt_height # height
     THEN CompareReturns(1)
     ELSE pc' = "compare_row" /\ UNCHANGED last
  /\ row' = 0
  /\ UNCHANGED << deficiency, severity, srgba_image, width, height, bytesPerRow, col,
                  request, image0, calls, loads, stores, visited >>
  /\ UNCHANGED << codecVars, callerVars >>

\* r < height: the row starts; after the last row, return 0
CompareRow ==
  /\ pc = "compare_row"
  /\ IF row < height
     THEN pc' = "compare_col" /\ col' = 0 /\ UNCHANGED last
     ELSE CompareReturns(0) /\ UNCHANGED col
  /\ UNCHANGED << deficiency, severity, srgba_image, width, height, bytesPerRow, row,
                  request, image0, calls, loads, stores, visited >>
  /\ UNCHANGED << codecVars, callerVars >>

\* inputRowPtr = inputImage + width*r, gtRowPtr = gtImage + width*r
CompareRowPtr == width * row

\* c < width*4: diff = abs(inputRowPtr[c] - gtRowPtr[c]); if (diff > 1) return 2;
\* at the end of the row, ++r
CompareCol ==
  /\ pc = "compare_col"
  /\ IF col < width * 4
     THEN LET o == CompareRowPtr + col
              diff == IF srgba_image[o] >= gtImage[o]
                      THEN srgba_image[o] - gtImage[o]
                      ELSE gtImage[o] - srgba_image[o]
          IN  /\ loads' = [loads EXCEPT ![o] = @ + 1]
              /\ visited' = Append(visited, << row, col >>)
              /\ IF diff > 1
                 THEN CompareReturns(2) /\ UNCHANGED col
                 ELSE col' = col + 1 /\ UNCHANGED << pc, last >>
              /\ UNCHANGED row
     ELSE /\ row' = row + 1
          /\ pc' = "compare_row"
          /\ UNCHANGED << col, loads, visited, last >>
  /\ UNCHANGED << deficiency, severity, srgba_image, width, height, bytesPerRow,
                  request, image0, calls, stores >>
  /\ UNCHANGED << codecVars, callerVars >>

NextCompare == CompareEnter \/ CompareRow \/ CompareCol

SpecCompare == InitCompare /\ [][NextCompare]_vars

(***************************************************************************)
(* filter#tritanopia of the SVG filters, applied to one pixel in linear    *)
(* light: two feColorMatrix projections, the binarised alpha of the first  *)
(* and the feBlend that picks one of them.  srgba_image is the source      *)
(* pixel, history holds the result of each primitive and last the pixel    *)
(* the filter outputs.                                                     *)
(***************************************************************************)
\* 1.0 of an alpha value <<q, r>>, which stands for q*1000 + r in
\* 1/(LinScale*CoefScale).
SvgOne == 100000000

svg_tritanopia_ProjectionOnPlane1 ==
  << 101354,   14268,  -15622,      0,      0,
      -1181,   87561,   13619,      0,      0,
       7707,   81208,   11085,      0,      0,
     792482, -566475, -226007, 100000, -20000 >>

svg_tritanopia_ProjectionOnPlane2 ==
  <<  93337,   19999,  -13336,      0,      0,
       5809,   82565,   11626,      0,      0,
     -37923,  113825,   24098,      0,      0,
          0,       0,       0, 100000,      0 >>

\* feFuncA type="discrete" tableValues="0 0 0 0 1"
svg_tritanopia_tableValues == << 0, 0, 0, 0, 1 >>

\* Source alphas that are exact tenths: 0, 0.8 and 1, as bytes.
SvgAlphas == {0, 204, 255}

AlphaTenths(a) == (a * 10) \div 255

\* The colour rows of a 4x5 feColorMatrix act on R, G, B only: their alpha
\* and offset columns are 0.
SvgRgbRows(m) == << m[1], m[2], m[3], m[6], m[7], m[8], m[11], m[12], m[13] >>

\* The alpha row of a feColorMatrix: m[16]*R + m[17]*G + m[18]*B + m[19]*A + m[20]
SvgAlphaRow(m, rgb, a) ==
  LET dot == DotWithSepPlane(rgb, << m[16], m[17], m[18] >>)
  IN  << dot[1] + m[19] * AlphaTenths(a) * 100 + m[20] * 1000, dot[2] >>

\* A filter primitive's result is clipped to [0, 1].
SvgClip(alpha) ==
  IF alpha[1] < 0 THEN << 0, 0 >>
  ELSE IF alpha[1] >= SvgOne THEN << SvgOne, 0 >>
  ELSE alpha

\* type="discrete" with n values: v_k for k/n <= C < (k+1)/n, v_n for C = 1.
SvgDiscrete(table, alpha) ==
  IF alpha[1] = SvgOne THEN table[Len(table)]
  ELSE table[((alpha[1] * Len(table)) \div SvgOne) + 1]

\* Colours on either side of the separation plane of the tritan parameters,
\* next to it, and greys on it.
SvgPlaneColours ==
  { << 201, 233, 17 >>, << 202, 232, 62 >>, << 202, 185, 238 >>, << 23, 5, 45 >>,
    << 0, 0, 0 >>, << 128, 128, 128 >>, << 255, 255, 255 >> }

SvgColours == CallColours \cup NearPlaneColours \cup SvgPlaneColours \cup DiagonalColours

SourceGraphic == << srgba_image[0], srgba_image[1], srgba_image[2] >>

SourceAlpha == srgba_image[3]

InitSvg ==
  \E c \in SvgColours, a \in SvgAlphas :
    /\ pc = "feColorMatrix1"
    /\ deficiency = DLDeficiency_Tritan
    /\ severity = SevScale
    /\ srgba_image = [i \in 0..3 |-> IF i = 3 THEN a ELSE c[i + 1]]
    /\ width = 1
    /\ height = 1
    /\ bytesPerRow = 0
    /\ row = 0
    /\ col = 0
    /\ request = [fn |-> "filter#tritanopia", deficiency |-> DLDeficiency_Tritan,
                  severity |-> SevScale, width |-> 1, height |-> 1, bytesPerRow |-> 0]
    /\ image0 = srgba_image
    /\ calls = << >>
    /\ loads = Zeroes(srgba_image)
    /\ stores = Zeroes(srgba_image)
    /\ visited = << >>
    /\ last = NoPixel
    /\ codecNext = 0
    /\ codecTrip = << >>
    /\ history = << >>
    /\ workers = << >>

SvgResult(name, m, alpha) ==
  [result |-> name, rgb |-> MatVec(SvgRgbRows(m), DecodeRgb(SourceGraphic)),
   alpha |-> alpha]

\* <feColorMatrix in="SourceGraphic" result="ProjectionOnPlane1">
SvgProjectionOnPlane1 ==
  /\ pc = "feColorMatrix1"
  /\ history' = << SvgResult("ProjectionOnPlane1", svg_tritanopia_ProjectionOnPlane1,
                             SvgClip(SvgAlphaRow(svg_tritanopia_ProjectionOnPlane1,
                                                 DecodeRgb(SourceGraphic), SourceAlpha))) >>
  /\ pc' = "feComponentTransfer"
  /\ UNCHANGED << deficiency, severity, srgba_image, width, height, bytesPerRow, row, col,
                  request, image0, calls, loads, stores, visited, last, codecVars, workers >>

\* <feComponentTransfer in="ProjectionOnPlane1" result="ProjectionOnPlane1">
SvgBinarize ==
  /\ pc = "feComponentTransfer"
  /\ history' = Append(history,
                  [history[1] EXCEPT
                     !.alpha = << SvgDiscrete(svg_tritanopia_tableValues, history[1].alpha)
                                    * SvgOne, 0 >>])
  /\ pc' = "feColorMatrix2"
  /\ UNCHANGED << deficiency, severity, srgba_image, width, height, bytesPerRow, row, col,
                  request, image0, calls, loads, stores, visited, last, codecVars, workers >>

\* <feColorMatrix in="SourceGraphic" result="ProjectionOnPlane2">
SvgProjectionOnPlane2 ==
  /\ pc = "feColorMatrix2"
  /\ history' = Append(history,
                  SvgResult("ProjectionOnPlane2", svg_tritanopia_ProjectionOnPlane2,
                            SvgClip(SvgAlphaRow(svg_tritanopia_ProjectionOnPlane2,
                                                DecodeRgb(SourceGraphic), SourceAlpha))))
  /\ pc' = "feBlend"
  /\ UNCHANGED << deficiency, severity, srgba_image, width, height, bytesPerRow, row, col,
                  request, image0, calls, loads, stores, visited, last, codecVars, workers >>

\* <feBlend in="ProjectionOnPlane1" in2="ProjectionOnPlane2" mode="normal"/>:
\* in over in2, and in has alpha 0 or 1.
SvgBlend ==
  /\ pc = "feBlend"
  /\ \E plane \in {IF history[2].alpha[1] = SvgOne THEN 1 ELSE 2} :
       last' = [fn |-> "filter#tritanopia", plane |-> plane,
                out |-> EncodeRgb(history[IF plane = 1 THEN 2 ELSE 3].rgb)]
  /\ pc' = "done"
  /\ UNCHANGED << deficiency, severity, srgba_image, width, height, bytesPerRow, row, col,
                  request, image0, calls, loads, stores, visited, history, codecVars,
                  workers >>

NextSvg == SvgProjectionOnPlane1 \/ SvgBinarize \/ SvgProjectionOnPlane2 \/ SvgBlend

SpecSvg == InitSvg /\ [][NextSvg]_vars

(***************************************************************************)
(* One achromatic pixel, R = G = B, of every byte value.                   *)
(***************************************************************************)
InitGrey ==
  \E fn \in EntryPoints, d \in Deficiencies, s \in Severities, v \in Byte :
    Start(fn, d, s, [i \in 0..3 |-> IF i = 3 THEN 77 ELSE v], 1, 1, 0)

SpecGrey == InitGrey /\ [][Next]_vars
(***************************************************************************)
(* Properties.                                                             *)
(***************************************************************************)
\* The stride of the request as the loops use it, and the image's pixels.
ReqStride == EffectiveStride(request.width, request.bytesPerRow)

ReqRows == 0..(request.height - 1)

ReqCols == 0..(request.width - 1)

PixelBase(r, c) == r * ReqStride + 4 * c

\* The stride is 0 or at least width*4: rows do not overlap.
StrideCoversRow ==
  request.bytesPerRow = 0 \/ request.bytesPerRow >= request.width * 4

\* The offsets of the R, G and B bytes of the image's pixels.
ColourOffsets ==
  {PixelBase(r, c) + k : r \in ReqRows, c \in ReqCols, k \in 0..2}

\* Offset o is the R, G or B byte of a pixel of the image.
IsColourOffset(o) ==
  \E r \in ReqRows :
    /\ o - r * ReqStride >= 0
    /\ o - r * ReqStride < request.width * 4
    /\ (o - r * ReqStride) % 4 # 3

Abs(x) == IF x < 0 THEN -x ELSE x

\* The algorithm that ran: the last function entered.
RanFn == calls[Len(calls)].fn

\* The buffer a direct call of algorithm fn leaves for the request's
\* arguments, when the loops run with the given stride.
DirectImage(fn, stride) ==
  IF fn = "dl_simulate_cvd_brettel1997"
  THEN BrettelImage(request.deficiency, request.severity, image0,
                    request.width, request.height, stride, 0, 0)
  ELSE VienotImage(request.deficiency, request.severity, image0,
                   request.width, request.height, stride, 0, 0)

AlphaKept ==
  \A r \in ReqRows, c \in ReqCols :
    srgba_image[PixelBase(r, c) + 3] = image0[PixelBase(r, c) + 3]

\* C1 as stated: after a call with any deficiency, severity, width, height
\* and stride, the alpha byte of every pixel is the byte it was before.
C1_AlphaKeptAnyStride == pc = "done" => AlphaKept

\* C1, amended: after a call whose stride is 0, at least width*4 or a
\* multiple of 4, the alpha byte of every pixel is the byte it was before.
C1_AlphaKept ==
  (pc = "done" /\ (StrideCoversRow \/ request.bytesPerRow % 4 = 0)) => AlphaKept

C1_Witness ==
  /\ pc = "done"
  /\ request.width = 2 /\ request.height = 2 /\ request.bytesPerRow = 4
  /\ srgba_image # image0
  /\ \E r \in ReqRows, c \in ReqCols : image0[PixelBase(r, c) + 3] \notin {0, 255}

C3_TotalScan ==
  StrideCoversRow =>
    /\ \A i \in 1..Len(visited) :
         /\ visited[i][1] \in ReqRows /\ visited[i][2] \in ReqCols
         /\ \A j \in 1..Len(visited) : visited[i] = visited[j] => i = j
    /\ \A o \in ColourOffsets : stores[o] <= 1 /\ loads[o] <= 1
    /\ pc = "done" =>
         /\ Len(visited) = request.width * request.height
         /\ \A o \in ColourOffsets : stores[o] = 1 /\ loads[o] = 1

C3_Witness ==
  /\ pc = "done"
  /\ request.width = 2 /\ request.height = 2 /\ request.bytesPerRow = 10
  /\ Len(visited) = 4

\* C4: a call reads and writes only the R, G and B bytes of the pixels, at
\* row*S + 4*col + k with k in 0..2; with a stride above width*4 the padding
\* bytes of each row are unchanged and never read, and nothing at or beyond
\* (height-1)*S + width*4 is accessed.
C4_Frame ==
  /\ pc # "undefined"
  /\ \A o \in DOMAIN srgba_image :
       /\ (stores[o] > 0 \/ loads[o] > 0) => IsColourOffset(o)
       /\ ~IsColourOffset(o) => srgba_image[o] = image0[o]
       /\ (request.height > 0 /\ o >= (request.height - 1) * ReqStride + request.width * 4)
            => stores[o] = 0 /\ loads[o] = 0
  /\ request.bytesPerRow > request.width * 4 =>
       \A r \in ReqRows :
         \A o \in (r * ReqStride + request.width * 4)..(r * ReqStride + ReqStride - 1) :
           srgba_image[o] = image0[o] /\ loads[o] = 0 /\ stores[o] = 0

C4_Witness ==
  /\ pc = "done"
  /\ request.width = 1 /\ request.height = 2 /\ request.bytesPerRow = 6
  /\ stores[0] = 1 /\ stores[6] = 1
  /\ srgba_image # image0

\* C5: for each entry point, a call with bytesPerRow = 0 leaves the buffer
\* that a call with bytesPerRow = width*4 leaves for the same arguments.
C5_DefaultStride ==
  (pc = "done" /\ request.bytesPerRow \in {0, request.width * 4}) =>
    /\ bytesPerRow = request.width * 4
    /\ srgba_image = DirectImage(RanFn, request.width * 4)

C5_Witness ==
  /\ pc = "done"
  /\ request.bytesPerRow = 0
  /\ request.width = 2 /\ request.height = 2
  /\ srgba_image # image0
  /\ srgba_image[8] # image0[8]

\* The linear colour of the bytes the latest pixel transform read.
LastRgb == DecodeRgb(last.srgb)

\* The 3x3 matrix that applies to the latest pixel transform: the Vienot
\* matrix of the deficiency, or the Brettel matrix of the half-plane that the
\* sign of the dot product with the separation plane's normal names.
LastMatrix ==
  IF last.fn = "dl_simulate_cvd_vienot1999"
  THEN VienotMatrixOf(last.deficiency)
  ELSE LET params == BrettelParamsOf(last.deficiency)
       IN  IF DotIsNegative(DotWithSepPlane(LastRgb, params.separationPlaneNormalInRgb))
           THEN params.rgbCvdFromRgb_2
           ELSE params.rgbCvdFromRgb_1

\* severity*simulated + (1 - severity)*original, per channel
Interpolated(s, simulated, original) ==
  [i \in 1..3 |-> MulSev(s, simulated[i]) + MulSev(SevScale - s, original[i])]

\* C6: in both algorithms and for every severity, also below 0 and above 1,
\* each channel written is toEncoded(severity*simulated + (1-severity)*original).
C6_NeverClamped ==
  last.fn # "none" =>
    last.out = EncodeRgb(Interpolated(last.severity, MatVec(LastMatrix, LastRgb), LastRgb))

\* C7: a call with severity 0 through any entry point leaves R, G and B of
\* every pixel within 1 of the byte it was.
C7_IdentityAtZero ==
  (pc = "done" /\ request.severity = 0 /\ StrideCoversRow) =>
    \A o \in ColourOffsets : Abs(srgba_image[o] - image0[o]) <= 1

C7_Witness ==
  /\ pc = "done"
  /\ request.severity = 0
  /\ request.fn = "dl_simulate_cvd"
  /\ image0[0] = 11 /\ srgba_image[0] = 10
  /\ image0[1] = 128 /\ srgba_image[1] = 128

\* C8: at severity 1.0 both algorithms write the encoded simulated colour,
\* the selected matrix times the decoded pixel, with nothing of the original.
C8_FullSeverity ==
  (last.fn # "none" /\ last.severity = SevScale) =>
    last.out = EncodeRgb(MatVec(LastMatrix, LastRgb))

C8_Witness ==
  /\ last.fn = "dl_simulate_cvd_brettel1997"
  /\ last.severity = SevScale
  /\ last.srgb = << 255, 0, 0 >>
  /\ last.out # last.srgb

\* C9: Brettel uses the plane-1 matrix exactly when the dot product of the
\* linear pixel with the separation plane's normal is >= 0, the plane-2
\* matrix otherwise; a dot product of exactly 0, as for black, takes plane 1.
C9_PlaneChoice ==
  last.fn = "dl_simulate_cvd_brettel1997" =>
    LET dot == DotWithSepPlane(LastRgb,
                 BrettelParamsOf(last.deficiency).separationPlaneNormalInRgb)
    IN  /\ last.plane \in {1, 2}
        /\ last.plane = 1 <=> (dot[1] > 0 \/ (dot[1] = 0 /\ dot[2] >= 0))
        /\ last.srgb = << 0, 0, 0 >> => (DotIsZero(dot) /\ last.plane = 1)

C9_Witness ==
  /\ last.fn = "dl_simulate_cvd_brettel1997"
  /\ last.srgb = << 0, 0, 0 >>
  /\ last.plane = 1

\* C10: for every byte v, encoding the decoded v gives v-1, v or v+1, and
\* the composed mapping never decreases as v grows.
C10_RoundTrip ==
  \A i \in 1..Len(codecTrip) :
    /\ Abs(codecTrip[i] - (i - 1)) <= 1
    /\ \A j \in 1..Len(codecTrip) : i <= j => codecTrip[i] <= codecTrip[j]

C10_Witness ==
  /\ Len(codecTrip) = 256
  /\ codecTrip[11] = 10 /\ codecTrip[12] = 10
  /\ codecTrip[256] = 255


(***************************************************************************)
(* The encoder's range.                                                    *)
(***************************************************************************)
\* The linear colour the latest pixel transform encoded.
LastLinear ==
  IF last.fn = "dl_simulate_cvd_vienot1999"
  THEN VienotLinear(last.deficiency, last.severity, last.srgb)
  ELSE BrettelLinear(last.deficiency, last.severity, last.srgb)

\* C11: sRGB_from_linearRGB clamps: a linear value <= 0 is written as 0, a
\* value >= 1 as 255, and every value written is a byte, so a colour outside
\* [0,1] never wraps around modulo 256.
C11_EncodeClamps ==
  last.fn # "none" =>
    \A i \in 1..3 :
      /\ last.out[i] \in Byte
      /\ LastLinear[i] <= 0 => last.out[i] = 0
      /\ LastLinear[i] >= LinScale => last.out[i] = 255

C11_Witness ==
  /\ last.fn # "none"
  /\ \E i \in 1..3 : LastLinear[i] < 0 /\ last.out[i] = 0
  /\ \E i \in 1..3 : LastLinear[i] > LinScale /\ last.out[i] = 255

(***************************************************************************)
(* The encoder's rounding.                                                 *)
(***************************************************************************)
\* trunc(x + 0.5) for the value x that a branch of sRGB_from_linearRGB
\* converts, x being v*12.92*255 below the knee and
\* 255*(1.055*v^(1/2.4) - 0.055) from the knee on.
AddHalfAndTruncate(v) ==
  (1 + (IF BelowEncodeKnee(v) THEN LinearHalves(v) ELSE GammaHalves(v))) \div 2

\* C12: in both non-clamped branches sRGB_from_linearRGB returns
\* trunc(x + 0.5), x being the value the branch computes.
C12_RoundsHalfUp ==
  \A i \in 1..Len(codecTrip) :
    LET v == linearRGB_from_sRGB(i - 1)
    IN  (v > 0 /\ v < LinScale) => codecTrip[i] = AddHalfAndTruncate(v)

(***************************************************************************)
(* Deficiencies outside the enumeration.                                   *)
(***************************************************************************)
\* C13: a call with a deficiency that is none of Protan, Deutan and Tritan
\* never returns as if it had succeeded, never reads through a null pointer
\* and writes no byte of the buffer.
C13_FailsFast ==
  request.deficiency \notin Deficiencies =>
    /\ pc # "done"
    /\ last # NullDereference
    /\ \A o \in DOMAIN stores : stores[o] = 0

WorkerBytes(i) == workers[i].reads \cup workers[i].writes

\* C15: two concurrent invocations on disjoint contiguous row ranges of a
\* buffer with stride 0 or >= width*4 read and write disjoint sets of bytes,
\* and after the join the buffer is the one a single call on the whole
\* buffer leaves, whatever the interleaving was.
C15_RowsRaceFree ==
  /\ \A i, j \in DOMAIN workers : i # j => WorkerBytes(i) \cap WorkerBytes(j) = {}
  /\ (pc = "done" /\ workers # << >>) =>
       srgba_image = DirectImage(AlgorithmOf(request.fn, request.deficiency), ReqStride)

C15_Witness ==
  /\ pc = "done"
  /\ workers # << >>
  /\ \A i \in DOMAIN workers : Cardinality(workers[i].writes) >= 3
  /\ request.width = 2
  /\ request.bytesPerRow > request.width * 4
  /\ srgba_image # image0

(***************************************************************************)
(* Partial severities.                                                     *)
(***************************************************************************)
\* What the algorithm of the latest pixel transform writes for the same
\* pixel at severity 1.0.
LastFull ==
  IF last.fn = "dl_simulate_cvd_vienot1999"
  THEN VienotPixel(last.deficiency, SevScale, last.srgb)
  ELSE BrettelPixel(last.deficiency, SevScale, last.srgb)

Min(a, b) == IF a <= b THEN a ELSE b

\* C16 as stated, for the severities above 0: at a severity below 1.0 each
\* channel written lies strictly between the original byte and the byte
\* written at severity 1.0, or equals them when the two are equal.
C16_StrictlyBetween ==
  (last.fn # "none" /\ 0 < last.severity /\ last.severity < SevScale) =>
    \A i \in 1..3 :
      \/ /\ Min(last.srgb[i], LastFull[i]) < last.out[i]
         /\ last.out[i] < Max(last.srgb[i], LastFull[i])
      \/ last.srgb[i] = LastFull[i] /\ last.out[i] = last.srgb[i]

\* C16, amended: at a severity from 0 to 1.0 each channel written lies
\* between the original byte and the byte written at severity 1.0, ends
\* included, or 1 below the smaller of the two.
C16_Between ==
  (pc = "done" /\ last.fn # "none" /\ last.severity >= 0 /\ last.severity <= SevScale) =>
    \A i \in 1..3 :
      /\ Min(last.srgb[i], LastFull[i]) - 1 <= last.out[i]
      /\ last.out[i] <= Max(last.srgb[i], LastFull[i])

C16_Witness ==
  /\ last.fn # "none"
  /\ last.severity = 550
  /\ \E i \in 1..3 : last.srgb[i] < last.out[i] /\ last.out[i] < LastFull[i]
  /\ \E i \in 1..3 : LastFull[i] < last.out[i] /\ last.out[i] < last.srgb[i]

(***************************************************************************)
(* The same transform applied twice.                                       *)
(***************************************************************************)
\* Calls i and i+1 of the caller ran the same algorithm at severity 1.0,
\* the second on the buffer the first one left.
AppliedTwice(i) ==
  /\ history[i].request.severity = SevScale
  /\ history[i + 1].request.severity = SevScale
  /\ AlgorithmOf(history[i].request.fn, history[i].request.deficiency)
       = AlgorithmOf(history[i + 1].request.fn, history[i + 1].request.deficiency)
  /\ history[i + 1].request.deficiency = history[i].request.deficiency
  /\ history[i + 1].before = history[i].after

\* R, G and B after the second application are within 2 of the first.
SecondWithin2(i) ==
  \A o \in 0..2 : Abs(history[i + 1].after[o] - history[i].after[o]) <= 2

\* C17 as stated: with either algorithm, applying it twice at severity 1.0
\* leaves R, G and B within 2 of applying it once.
C17_NearIdempotent ==
  \A i \in 1..(Len(history) - 1) : AppliedTwice(i) => SecondWithin2(i)

\* C17, amended: applying the Vienot algorithm twice at severity 1.0 leaves
\* R, G and B within 2 of applying it once, also when the first application
\* clamped a channel.
C17_VienotNearIdempotent ==
  \A i \in 1..(Len(history) - 1) :
    (AppliedTwice(i) /\ AlgorithmOf(history[i].request.fn, history[i].request.deficiency)
                          = "dl_simulate_cvd_vienot1999")
      => SecondWithin2(i)

C17_Witness ==
  \E i \in 1..(Len(history) - 1) :
    /\ AppliedTwice(i)
    /\ AlgorithmOf(history[i].request.fn, history[i].request.deficiency)
         = "dl_simulate_cvd_vienot1999"
    /\ \E k \in 1..3 :
         VienotLinear(history[i].request.deficiency, SevScale,
                      << history[i].before[0], history[i].before[1],
                         history[i].before[2] >>)[k] < 0
    /\ history[i + 1].after # history[i].after

BothRan == Ran("lms") /\ Ran("rgb")

ChannelGap(a, b) ==
  LET d(i) == IF a[i] >= b[i] THEN a[i] - b[i] ELSE b[i] - a[i]
  IN  IF d(0) >= d(1) /\ d(0) >= d(2) THEN d(0)
      ELSE IF d(1) >= d(2) THEN d(1) ELSE d(2)

\* The dot products the two formulations compare with 0 for the pixel.
LmsDot ==
  LmsDotWithSepPlane(LmsOf(DecodeRgb(SrgbOf(srgba_image))),
                     LmsParamsOf(deficiency).separationPlaneNormal)

RgbDot ==
  DotWithSepPlane(DecodeRgb(SrgbOf(srgba_image)),
                  RgbParamsOf(deficiency).separationPlaneNormalInRgb)

\* Both dot products are within 0.00001 of zero.
OnSeparationPlane ==
  /\ -10000 <= LmsDot[1] /\ LmsDot[1] < 10000
  /\ -1000 <= RgbDot[1] /\ RgbDot[1] < 1000

C21_SkipIsNeutral ==
  (last.fn = "dl_simulate_cvd_vienot1999" /\ last.severity >= VienotFullSeverity) =>
    LET simulated == MatVec(VienotMatrixOf(last.deficiency), LastRgb)
    IN  last.out = EncodeRgb(Interpolated(last.severity, simulated, LastRgb))

\* The pixels the scan has transformed in row r.
VisitedInRow(r) == {i \in 1..Len(visited) : visited[i][1] = r}

\* The scan has returned after height outer iterations of width pixels each.
ScanComplete ==
  /\ pc = "done"
  /\ row = request.height
  /\ Len(visited) = request.width * request.height
  /\ \A r \in ReqRows : Cardinality(VisitedInRow(r)) = request.width

\* C22: every call terminates: for any width and height the scan performs
\* exactly height outer iterations and width inner iterations per row and
\* then returns.
C22_Terminates == <>ScanComplete

C22_Witness ==
  /\ ScanComplete
  /\ request.width = MaxWidth
  /\ request.height = MaxHeight
  /\ Len(visited) = MaxWidth * MaxHeight

\* The colour handed to the encoder had a channel that is not a number.
EncodedNan(call) == \E i \in 1..3 : call.linear[i] = "nan"

\* C23: sRGB_from_linearRGB has no error condition: every float, also the
\* not-a-number and infinite values that a severity that is not finite
\* produces in the blend, is caught by a clamp branch or gives a byte that
\* the input determines.
C23_NoErrorCondition ==
  \A i \in 1..Len(history) : ~EncodedNan(history[i])

\* Every byte of the image is within 1 of the ground truth's.
AllWithinOne ==
  \A o \in DOMAIN srgba_image :
    srgba_image[o] - gtImage[o] \in {-1, 0, 1}

\* C24: compare_images returns 0 only if every channel byte of every pixel
\* is within 1 of the same byte of the ground truth: its loops visit all
\* width*height*4 bytes.
C24_GoodMeansClose ==
  (pc = "done" /\ last.result = 0) =>
    /\ AllWithinOne
    /\ \A o \in DOMAIN srgba_image : loads[o] >= 1

\* C25: for a fully opaque pixel the SVG tritanopia filter outputs the
\* projection the C core chooses: projection 1 exactly when
\* dot(rgb, separationPlaneNormalInRgb) >= 0, projection 2 otherwise.
C25_SamePlaneChoice ==
  (pc = "done" /\ last.fn = "filter#tritanopia" /\ SourceAlpha = 255) =>
    last.plane = RgbPlaneOf(DLDeficiency_Tritan, SourceGraphic)

(***************************************************************************)
(* Per-pixel data flow.                                                    *)
(***************************************************************************)
\* R, G and B of the pixel at offset base of img.
ColourAt(img, base) == << img[base], img[base + 1], img[base + 2] >>

\* What algorithm fn writes for a pixel with the request's arguments.
PixelBy(fn, srgb) ==
  IF fn = "dl_simulate_cvd_brettel1997"
  THEN BrettelPixel(request.deficiency, request.severity, srgb)
  ELSE VienotPixel(request.deficiency, request.severity, srgb)

\* C26: with a stride of 0 or at least width*4, each pixel transform reads
\* the R, G and B the caller put in that pixel, and R, G and B of every pixel
\* already transformed are the algorithm's output for the original R, G and B
\* of that same pixel, the deficiency and the severity.
C26_OwnPixelOnly ==
  (pc # "undefined" /\ StrideCoversRow /\ visited # << >>) =>
    /\ last.srgb = ColourAt(image0, PixelBase(visited[Len(visited)][1],
                                              visited[Len(visited)][2]))
    /\ \A i \in 1..Len(visited) :
         LET base == PixelBase(visited[i][1], visited[i][2])
         IN  /\ ColourAt(srgba_image, base) = PixelBy(last.fn, ColourAt(image0, base))
             /\ \A k \in 0..2 : loads[base + k] = 1 /\ stores[base + k] = 1

C26_Witness ==
  /\ pc = "done"
  /\ request.width = 2 /\ request.height = 2 /\ request.bytesPerRow = 0
  /\ Len(visited) = 4
  /\ ColourAt(image0, 0) # ColourAt(image0, 4)
  /\ ColourAt(srgba_image, 4) # ColourAt(image0, 4)
  /\ ColourAt(srgba_image, 4) # ColourAt(srgba_image, 0)

(***************************************************************************)
(* Strides smaller than a row.                                             *)
(***************************************************************************)
\* A nonzero bytesPerRow below width*4 on an image of at least two rows.
NarrowStride ==
  /\ request.bytesPerRow > 0
  /\ request.bytesPerRow < request.width * 4
  /\ request.height >= 2

\* The pixel positions << row, col, channel >> whose R, G or B is byte o.
Writers(o) ==
  {w \in ReqRows \X ReqCols \X (0..2) : PixelBase(w[1], w[2]) + w[3] = o}

LastWriter(o) ==
  CHOOSE w \in Writers(o) :
    \A v \in Writers(o) : v[1] < w[1] \/ (v[1] = w[1] /\ v[2] <= w[2])

\* The per-pixel transform applied once: every pixel position computed from
\* the bytes the caller supplied.
SingleApplication ==
  [o \in DOMAIN image0 |->
     IF Writers(o) = {} THEN image0[o]
     ELSE LET w == LastWriter(o)
          IN  PixelBy(last.fn, ColourAt(image0, PixelBase(w[1], w[2])))[w[3] + 1]]

\* C27 as stated: after a call with a nonzero stride below width*4 the
\* buffer differs from a single application of the per-pixel transform.
C27_OverlapDiffers ==
  (pc = "done" /\ NarrowStride) => srgba_image # SingleApplication

\* C27, amended: a nonzero stride below width*4 is accepted and all
\* width*height pixel positions are transformed in scan order; each byte is
\* loaded and stored once for every position that has it as R, G or B, and
\* each position is decoded from the bytes the positions before it left.
C27_OverlapRetransformed ==
  /\ NarrowStride => pc # "undefined"
  /\ (pc = "done" /\ NarrowStride) =>
       /\ Len(visited) = request.width * request.height
       /\ \A o \in DOMAIN srgba_image :
            loads[o] = Cardinality(Writers(o)) /\ stores[o] = loads[o]
       /\ srgba_image = DirectImage(last.fn, request.bytesPerRow)

C27_Witness ==
  /\ pc = "done"
  /\ NarrowStride
  /\ request.bytesPerRow = 4
  /\ stores[4] = 2
  /\ srgba_image # SingleApplication

(***************************************************************************)
(* Structure of the tables.                                                *)
(***************************************************************************)
\* C28: a pixel transform of dl_simulate_cvd_vienot1999 at a severity of
\* 0.999 or more writes R = G for Protan and Deutan and G = B for Tritan,
\* whatever the pixel was.
C28_TwinChannels ==
  (last.fn = "dl_simulate_cvd_vienot1999" /\ last.severity >= VienotFullSeverity) =>
    IF last.deficiency = DLDeficiency_Tritan
    THEN last.out[2] = last.out[3]
    ELSE last.out[1] = last.out[2]

C28_Witness ==
  /\ last.fn = "dl_simulate_cvd_vienot1999"
  /\ last.severity = VienotFullSeverity
  /\ last.deficiency = DLDeficiency_Deutan
  /\ last.srgb[1] # last.srgb[2]
  /\ last.out[1] = last.out[2]
  /\ last.out[3] # last.out[1]

\* The latest pixel transform was of an achromatic pixel.
GreyTransformed ==
  last.fn # "none" /\ last.srgb[1] = last.srgb[2] /\ last.srgb[2] = last.srgb[3]

RowSum(m, i) == m[i] + m[i + 1] + m[i + 2]

VienotTables == {VienotMatrixOf(d) : d \in Deficiencies}

BrettelTables ==
  UNION {{BrettelParamsOf(d).rgbCvdFromRgb_1, BrettelParamsOf(d).rgbCvdFromRgb_2} :
         d \in Deficiencies}

=============================================================================
